---- MODULE Spec2Model ----
(***************************************************************************)
(* Ceryn vault: the dependency-injection resolution engine.                *)
(*                                                                         *)
(* One container (Vault) with its EntryStore, its singleton cache, two     *)
(* request scopes, the synchronous resolver (one atomic step per call) and *)
(* the asynchronous resolver (one step per code segment between awaits).   *)
(***************************************************************************)
EXTENDS Integers, Sequences, FiniteSets, TLC

(***************************************************************************)
(* Bounds of the model.                                                    *)
(***************************************************************************)
MaxCalls == 2       \* top-level resolve / resolveAsync calls issued in a run
MaxFrames == 7      \* asynchronous frames (resolutions and instantiations)
MaxEpoch == 1       \* clear() calls in a run
MaxDispose == 2     \* dispose() calls in a run
MaxRegs == 3        \* disposers registered in one scope by its user
MaxAttach == 4      \* containers in the fused list of one container
MaxDepth == 3       \* nested vault.resolve calls the call stack holds

(***************************************************************************)
(* Entry flag system (core/flags.ts).                                      *)
(***************************************************************************)
LIFECYCLE_SINGLETON == 0
LIFECYCLE_SCOPED == 1
LIFECYCLE_TRANSIENT == 2
LIFECYCLE_MASK == 3
FLAG_HAS_INSTANCE == 4
FLAG_HAS_NO_DEPS == 8

\* flags & bit, for a single-bit flag.
HasFlag(flags, bit) == (flags \div bit) % 2 = 1
\* flags & LIFECYCLE_MASK.
LifecycleBits(flags) == flags % (LIFECYCLE_MASK + 1)
\* flags |= bit and flags &= ~bit.
SetFlag(flags, bit) == IF HasFlag(flags, bit) THEN flags ELSE flags + bit
ClearFlag(flags, bit) == IF HasFlag(flags, bit) THEN flags - bit ELSE flags

\* A variant of lifecycleToFlag that gives every entry the singleton bits.
lifecycleToFlagSingleton(lifecycle) == LIFECYCLE_SINGLETON
\* lifecycleToFlag: the lifecycle bits of a lifecycle.
lifecycleToFlag(lifecycle) ==
  CASE lifecycle = "singleton" -> LIFECYCLE_SINGLETON
    [] lifecycle = "scoped" -> LIFECYCLE_SCOPED
    [] lifecycle = "transient" -> LIFECYCLE_TRANSIENT
    [] OTHER -> LIFECYCLE_SINGLETON

(***************************************************************************)
(* Tokens, values and entries.                                             *)
(***************************************************************************)
Tokens == {"A", "B", "D", "T"}
Lifecycles == {"singleton", "scoped", "transient"}
Scopes == {1, 2}
NoScope == 0
\* Values: 0 is undefined, a positive number is an instance built by the
\* Activator (its index in heap), a negative number is a value handed in by
\* the application (useValue / scope.provide).
Undefined == 0

\* Entry (core/entry-store.ts): reg tells whether the slot is occupied.
\* factory is "none", "sync" (a factory returning a plain value) or "async" (a
\* factory returning a promise); promise is the frame of the in-flight shared
\* creation, 0 when there is none. reenters lists the tokens the body of the
\* constructor or factory resolves itself by calling vault.resolve(token) on
\* the container it closes over.
NoEntry ==
  [reg |-> FALSE, lifecycle |-> "singleton", ctor |-> FALSE, factory |-> "none",
   summons |-> <<>>, factoryDeps |-> <<>>, reenters |-> <<>>, label |-> "",
   instance |-> Undefined, flags |-> 0, promise |-> 0,
   owned |-> FALSE, owner |-> ""]

\* A provider of the configuration (types/types.ts Provider): kind is "class"
\* (a decorated class or useClass), "factory" / "afactory" (useFactory, plain
\* or promise-returning) or "value" (useValue); "rclass" is a class without
\* summons and "rfactory" a plain factory without declared dependencies whose
\* body calls vault.resolve on each of deps.
Provider(tok, lifecycle, kind, deps, value) ==
  [tok |-> tok, lifecycle |-> lifecycle, kind |-> kind, deps |-> deps,
   value |-> value]

NoError == [type |-> "none", payload |-> <<>>, tok |-> ""]
Err(type, payload, tok) == [type |-> type, payload |-> payload, tok |-> tok]

SeqToSet(s) == {s[i] : i \in 1..Len(s)}
Contains(s, x) == \E i \in 1..Len(s) : s[i] = x
\* Array.prototype.indexOf for an element known to be present.
IndexOf(s, x) == CHOOSE i \in 1..Len(s) : s[i] = x /\ \A j \in 1..(i - 1) : s[j] # x
Front(s) == SubSeq(s, 1, Len(s) - 1)


(***************************************************************************)
(* Registration (core/vault.ts, core/entry-store.ts).                      *)
(***************************************************************************)
LabelOf(tok) == "L" \o tok

\* The Entry each _register* method builds for a provider.
EntryOf(p) ==
  CASE p.kind = "class" ->
         [NoEntry EXCEPT !.reg = TRUE, !.lifecycle = p.lifecycle, !.ctor = TRUE,
            !.summons = p.deps, !.label = LabelOf(p.tok),
            !.flags = lifecycleToFlag(p.lifecycle)
                        + (IF Len(p.deps) = 0 THEN FLAG_HAS_NO_DEPS ELSE 0)]
    [] p.kind \in {"factory", "afactory"} ->
         [NoEntry EXCEPT !.reg = TRUE, !.lifecycle = p.lifecycle,
            !.factory = IF p.kind = "factory" THEN "sync" ELSE "async",
            !.factoryDeps = p.deps, !.label = LabelOf(p.tok),
            !.flags = lifecycleToFlag(p.lifecycle) + FLAG_HAS_NO_DEPS]
    [] p.kind = "rclass" ->
         [NoEntry EXCEPT !.reg = TRUE, !.lifecycle = p.lifecycle, !.ctor = TRUE,
            !.reenters = p.deps, !.label = LabelOf(p.tok),
            !.flags = lifecycleToFlag(p.lifecycle) + FLAG_HAS_NO_DEPS]
    [] p.kind = "rfactory" ->
         [NoEntry EXCEPT !.reg = TRUE, !.lifecycle = p.lifecycle,
            !.factory = "sync", !.reenters = p.deps, !.label = LabelOf(p.tok),
            !.flags = lifecycleToFlag(p.lifecycle) + FLAG_HAS_NO_DEPS]
    [] OTHER ->
         [NoEntry EXCEPT !.reg = TRUE, !.lifecycle = "singleton", !.ctor = TRUE,
            !.label = LabelOf(p.tok), !.instance = p.value,
            !.flags = LIFECYCLE_SINGLETON + FLAG_HAS_INSTANCE + FLAG_HAS_NO_DEPS]

\* The dependencies _validateDependencyLifecyclesForEntry walks: the summons,
\* then the factory dependencies.
DepsOf(entry) == entry.summons \o entry.factoryDeps

\* Whether a consumer of lifecycle c may not depend on a dependency of
\* lifecycle d.
LifecycleViolation(c, d) ==
  \/ c = "singleton" /\ d \in {"scoped", "transient"}
  \/ c = "scoped" /\ d = "transient"

\* _validateDependencyLifecyclesForEntry: the error it throws for entry tok of
\* store st, NoError when it returns. A dependency that is not registered yet
\* is skipped.
ValidateDependencyLifecyclesForEntry(st, tok) ==
  LET ds == DepsOf(st[tok])
      bad == {i \in 1..Len(ds) :
                st[ds[i]].reg /\ LifecycleViolation(st[tok].lifecycle, st[ds[i]].lifecycle)}
  IN IF bad = {} THEN NoError
     ELSE LET i == CHOOSE k \in bad : \A j \in bad : k <= j
          IN Err("LifecycleViolation", <<tok, ds[i]>>, tok)

\* cfg.name ?? 'Vault' of a configuration without a name.
VaultName == "Vault"

\* EntryStore.add(entry, vaultName): owners.get(entry.token) is undefined for
\* a token without an owner, and `if (existingOwner)` takes a string for true
\* unless it is empty; past it, entries and owners are set.
add(st, entry, tok, vaultName) ==
  IF st[tok].owned /\ st[tok].owner # ""
    THEN [store |-> st, err |-> Err("TokenCollision", <<tok>>, tok)]
    ELSE [store |-> [st EXCEPT ![tok] = [entry EXCEPT !.owned = TRUE,
                                                       !.owner = vaultName]],
          err |-> NoError]

\* _registerRelic: EntryStore.add (collision check), then, except for a value
\* provider, the lifecycle validation of the new entry. The entry stays in the
\* store when the validation throws.
RegisterRelic(st, p) ==
  LET a == add(st, EntryOf(p), p.tok, VaultName)
  IN IF a.err.type # "none" THEN a
     ELSE [store |-> a.store,
           err |-> IF p.kind = "value" THEN NoError
                   ELSE ValidateDependencyLifecyclesForEntry(a.store, p.tok)]

\* The store the Vault constructor leaves after registering the providers ps
\* in order, and the error it threw.
RECURSIVE RegisterAll(_, _)
RegisterAll(st, ps) ==
  IF ps = <<>> THEN [store |-> st, err |-> NoError]
  ELSE LET r == RegisterRelic(st, Head(ps))
       IN IF r.err.type # "none" THEN r ELSE RegisterAll(r.store, Tail(ps))

EmptyStore == [t \in Tokens |-> NoEntry]

(***************************************************************************)
(* Diagnostics (core/vault.ts).                                            *)
(***************************************************************************)
\* _formatTokenForDiagnostics / describeToken: "label [canonical]" for a
\* registered token, the bare canonical id otherwise.
describeToken(st, t) ==
  IF st[t].reg THEN st[t].label \o " [" \o t \o "]" ELSE t

DescribeAll(st, s) == [i \in 1..Len(s) |-> describeToken(st, s[i])]

\* A trace that is the whole stack with the token appended, not sliced.
CycleTraceWholeStack(st, stack, tok) == DescribeAll(st, Append(stack, tok))

\* The cycle both resolvers report: stack.slice(stack.indexOf(canonical))
\* .concat(canonical), described.
CycleTrace(st, stack, tok) ==
  DescribeAll(st, Append(SubSeq(stack, IndexOf(stack, tok), Len(stack)), tok))

\* buildNotFoundError: the de-duplicated, described stack as the chain.
RECURSIVE Dedup(_)
Dedup(s) ==
  IF s = <<>> THEN <<>>
  ELSE LET f == Dedup(Front(s))
       IN IF Contains(f, s[Len(s)]) THEN f ELSE Append(f, s[Len(s)])

buildNotFoundError(st, tok, stack) ==
  Err("RelicNotFound", DescribeAll(st, Dedup(stack)), tok)

(***************************************************************************)
(* The world the resolvers act on: the mutable state of one Vault and its  *)
(* scopes, threaded through the synchronous resolution.                    *)
(*   store    EntryStore.entries (instance, flags, promise of every Entry)  *)
(*   cache    the keys primed in Vault.cache (each maps to its own Entry)   *)
(*   scopes   per Scope: disposed, localRegistrations, _cache, disposers   *)
(*            (in insertion order; regs counts the functions registered so  *)
(*            far and numbers them), tokenDisposers, and the course of its  *)
(*            first dispose() / disposeSync(): pc, the disposers still to   *)
(*            be iterated (rest), the invocation awaited (wait), the        *)
(*            disposers registered when it began (atDispose), the number of *)
(*            dispose calls (dcount), and per token whether the last local  *)
(*            registration was a provide or an override (last)              *)
(*   heap     the instances built so far: token and constructor arguments   *)
(*   invoked  constructor / factory invocations per token                   *)
(*   flaky    per token, how many of the next invocations throw             *)
(*   stack    the traversal stack of the running resolution                 *)
(***************************************************************************)
NoDisposer == 0
NoScopeState ==
  [disposed |-> FALSE, local |-> [t \in Tokens |-> Undefined],
   cache |-> [t \in Tokens |-> Undefined],
   disposers |-> <<>>, tokenDisposers |-> [t \in Tokens |-> NoDisposer],
   regs |-> 0, last |-> [t \in Tokens |-> "none"],
   pc |-> "live", rest |-> <<>>, wait |-> 0, atDispose |-> <<>>, dcount |-> 0]

\* What calling dispose() / close() does, "none" when there is neither
\* method; kinds tells it for the instances of a token, under the token, and
\* for a value handed to a scope, under the value's name.
KindOf(kinds, key) == IF key \in DOMAIN kinds THEN kinds[key] ELSE "none"
ValueName(v) == ToString(v)

\* Scope.registerDisposer past its disposed check: fn joins the disposer set.
\* fn is told by its number id, the token and value it was made for, and
\* where it was made (src).
AddDisposer(sc, tok, v, src) ==
  [sc EXCEPT !.regs = @ + 1,
             !.disposers = Append(@, [id |-> sc.regs + 1, tok |-> tok,
                                      val |-> v, src |-> src])]

Ok(w, v) == [w |-> w, val |-> v, err |-> NoError]
Fail(w, e) == [w |-> w, val |-> Undefined, err |-> e]
Failed(r) == r.err.type # "none"

SINGLETON_WITH_INSTANCE == LIFECYCLE_SINGLETON + FLAG_HAS_INSTANCE
SINGLETON_MASK_CHECK == LIFECYCLE_MASK + FLAG_HAS_INSTANCE

\* (flags & SINGLETON_MASK_CHECK) === SINGLETON_WITH_INSTANCE
IsSingletonWithInstance(flags) ==
  flags % (SINGLETON_MASK_CHECK + 1) = SINGLETON_WITH_INSTANCE

\* _tryGetFromSingletonCache: the cached singleton instance, Undefined on a miss.
TryGetFromSingletonCache(w, tok) ==
  IF tok \in w.cache /\ IsSingletonWithInstance(w.store[tok].flags)
    THEN w.store[tok].instance ELSE Undefined

\* _tryGetFromScopeCache: the scope-local registration, then the scope's own
\* cache (whose getter throws once the scope is disposed).
TryGetFromScopeCache(w, tok, scope) ==
  IF scope = NoScope THEN Ok(w, Undefined)
  ELSE IF w.scopes[scope].local[tok] # Undefined THEN Ok(w, w.scopes[scope].local[tok])
  ELSE IF w.scopes[scope].disposed THEN Fail(w, Err("ScopeDisposed", <<>>, tok))
  ELSE Ok(w, w.scopes[scope].cache[tok])

\* MRUCache.primeAll on the vault cache (every alias is the canonical id).
PrimeAll(w, tok) == [w EXCEPT !.cache = @ \cup {tok}]

\* The singleton commit of both resolvers: entry.instance = value,
\* entry.flags |= FLAG_HAS_INSTANCE, cache.primeAll.
CommitSingleton(w, tok, v) ==
  PrimeAll([w EXCEPT !.store[tok].instance = v,
                     !.store[tok].flags = SetFlag(@, FLAG_HAS_INSTANCE)], tok)

\* The scoped commit of both resolvers: a copy of the entry with the instance
\* goes into the scope's cache, and an instance with dispose() or close()
\* gets a disposer registered in the scope.
CommitScoped(w, tok, scope, v) ==
  LET primed == [w.scopes[scope] EXCEPT !.cache[tok] = v]
  IN IF w.scopes[scope].disposed THEN Fail(w, Err("ScopeDisposed", <<>>, tok))
     ELSE Ok([w EXCEPT !.scopes[scope] =
                IF KindOf(w.kinds, tok) # "none"
                  THEN AddDisposer(primed, tok, v, "scoped") ELSE primed], v)

\* new ctor(...args) / factory(...args): counts the invocation; throws while
\* the token is flaky, otherwise allocates the instance.
Construct(w, tok, args) ==
  LET w1 == [w EXCEPT !.invoked[tok] = @ + 1]
  IN IF w.flaky[tok] > 0
       THEN Fail([w1 EXCEPT !.flaky[tok] = @ - 1],
                 Err(IF w.store[tok].factory # "none" THEN "FactoryExecution"
                     ELSE "ConstructorThrew", <<>>, tok))
       ELSE Ok([w1 EXCEPT !.heap = Append(@, [tok |-> tok, args |-> args])],
               Len(w.heap) + 1)

(***************************************************************************)
(* Synchronous resolution (core/resolver-sync.ts, Activator.instantiateSync,*)
(* Vault._resolveRelic, Vault.resolve).                                    *)
(***************************************************************************)
RECURSIVE ResolveRelic(_, _, _), ResolveLocal(_, _, _), FromEntrySync(_, _, _),
          InstantiateSync(_, _, _), ResolveArgsSync(_, _, _, _),
          Resolve(_, _, _), RunBody(_, _)

\* deps.map(dep => vault._resolveRelic(dep, stack, scope)) after its first
\* element resolved to r: the first throw ends it.
ResolveArgsRest(r, deps, scope, acc) ==
  IF Failed(r) THEN [w |-> r.w, val |-> <<>>, err |-> r.err]
  ELSE ResolveArgsSync(r.w, Tail(deps), scope, Append(acc, r.val))

\* deps.map(dep => vault._resolveRelic(dep, stack, scope)): left to right.
\* val is the sequence of arguments.
ResolveArgsSync(w, deps, scope, acc) ==
  IF deps = <<>> THEN [w |-> w, val |-> acc, err |-> NoError]
  ELSE ResolveArgsRest(ResolveRelic(w, Head(deps), scope), deps, scope, acc)

\* The dependencies Activator.instantiateSync resolves for an entry: the
\* factory's, none for a value-backed or zero-summons entry, else the summons.
DepsToResolve(e) ==
  IF e.factory # "none" THEN e.factoryDeps
  ELSE IF ~e.ctor \/ HasFlag(e.flags, FLAG_HAS_NO_DEPS) THEN <<>>
  ELSE e.summons

\* Activator.instantiateSync once the dependencies resolved to a.
InstantiateWith(a, tok) ==
  LET e == a.w.store[tok] IN
  IF Failed(a) THEN Fail(a.w, a.err)
  ELSE IF e.factory = "async"
    \* the factory runs and hands back a promise, which the sync path rejects
    THEN Fail([a.w EXCEPT !.invoked[tok] = @ + 1,
                          !.flaky[tok] = IF @ > 0 THEN @ - 1 ELSE @],
              Err("FactoryExecution", <<>>, tok))
  ELSE IF e.factory = "sync" THEN Construct(a.w, tok, a.val)
  ELSE IF ~e.ctor THEN
    IF e.instance # Undefined THEN Ok(a.w, e.instance)
    ELSE Fail(a.w, Err("UnconstructableRelic", <<>>, tok))
  ELSE Construct(a.w, tok, a.val)

\* The engine's call stack is exhausted: RangeError, maximum call stack size
\* exceeded.
RangeError(tok) == Err("RangeError", <<>>, tok)

\* A vault.resolve(tok) made from inside a constructor or factory returned r:
\* the nested call is left.
Leave(r) == [r EXCEPT !.w.depth = @ - 1]

\* vault.resolve(tok) called from the body of a constructor or factory while
\* the resolution that runs this body is in progress, MaxDepth nested calls
\* being what the call stack holds.
ReentrantResolve(w, tok) ==
  IF w.depth >= MaxDepth THEN Fail(w, RangeError(tok))
  ELSE Leave(Resolve([w EXCEPT !.depth = @ + 1], tok, NoScope))

\* The body after its first vault.resolve returned r: the first throw ends it.
RunBodyRest(r, toks) ==
  IF Failed(r) THEN r ELSE RunBody(r.w, Tail(toks))

\* The vault.resolve calls of a body, in order.
RunBody(w, toks) ==
  IF toks = <<>> THEN Ok(w, Undefined)
  ELSE RunBodyRest(ReentrantResolve(w, Head(toks)), toks)

\* The catch of instantiateSync around a factory: a FactoryExecutionError is
\* rethrown, any other error is wrapped in one (payload: the type of its
\* cause). What a constructor throws is not caught.
ThrownByBody(e, err, tok) ==
  IF e.factory = "none" \/ err.type = "FactoryExecution" THEN err
  ELSE Err("FactoryExecution", <<err.type>>, tok)

\* The arguments a once the body's own vault.resolve calls returned b: the
\* body was entered, and what it threw leaves instantiateSync.
AfterBody(b, a, tok) ==
  IF Failed(b)
    THEN [w |-> [b.w EXCEPT !.invoked[tok] = @ + 1], val |-> a.val,
          err |-> ThrownByBody(b.w.store[tok], b.err, tok)]
    ELSE [w |-> b.w, val |-> a.val, err |-> NoError]

\* The constructor or factory runs with the arguments a up to the end of the
\* vault.resolve calls of its body (a body that throws at once makes none).
EnterBody(a, tok) ==
  IF Failed(a) THEN a
  ELSE IF a.w.store[tok].reenters = <<>> THEN a
  ELSE IF a.w.flaky[tok] > 0 THEN a
  ELSE AfterBody(RunBody(a.w, a.w.store[tok].reenters), a, tok)

\* Activator.instantiateSync.
InstantiateSync(w, tok, scope) ==
  InstantiateWith(
    EnterBody(ResolveArgsSync(w, DepsToResolve(w.store[tok]), scope, <<>>), tok),
    tok)

\* ResolverSync.fromEntry after the Activator returned r: the singleton or
\* scoped commit.
CommitSync(r, tok, scope, lifecycleFlags) ==
  IF Failed(r) THEN r
  ELSE IF LifecycleBits(r.w.store[tok].flags) = LIFECYCLE_SINGLETON
    THEN Ok(CommitSingleton(r.w, tok, r.val), r.val)
  ELSE IF lifecycleFlags = LIFECYCLE_SCOPED /\ scope # NoScope
    THEN CommitScoped(r.w, tok, scope, r.val)
  ELSE r

\* The body of ResolverSync.fromEntry between stack.push and the finally.
FromEntrySyncBody(w, tok, scope) ==
  LET e == w.store[tok]
      lifecycleFlags == LifecycleBits(e.flags)
  IN
  \* (entry.flags & LIFECYCLE_SINGLETON) === 0 holds of every flags value
  IF HasFlag(e.flags, FLAG_HAS_INSTANCE) THEN Ok(w, e.instance)
  ELSE IF lifecycleFlags = LIFECYCLE_SCOPED /\ scope # NoScope /\ w.scopes[scope].disposed
    THEN Fail(w, Err("ScopeDisposed", <<>>, tok))
  ELSE IF lifecycleFlags = LIFECYCLE_SCOPED /\ scope # NoScope
          /\ w.scopes[scope].cache[tok] # Undefined
    THEN Ok(w, w.scopes[scope].cache[tok])
  ELSE IF lifecycleFlags = LIFECYCLE_SCOPED /\ scope = NoScope
    THEN Fail(w, Err("ScopedWithoutScope", DescribeAll(w.store, w.stack), tok))
  ELSE CommitSync(InstantiateSync(w, tok, scope), tok, scope, lifecycleFlags)

\* The finally of ResolverSync.fromEntry: stack.pop().
PopSync(r) == [r EXCEPT !.w.stack = Front(@)]

\* ResolverSync.fromEntry: not-found, cycle detection, push, body, pop.
FromEntrySync(w, tok, scope) ==
  IF ~w.store[tok].reg THEN Fail(w, buildNotFoundError(w.store, tok, w.stack))
  ELSE IF Contains(w.stack, tok)
    THEN Fail(w, Err("CircularDependency", CycleTrace(w.store, w.stack, tok), tok))
  ELSE PopSync(FromEntrySyncBody([w EXCEPT !.stack = Append(@, tok)], tok, scope))

\* After fromEntry returned r: prime the cache for a singleton that was not
\* cached before.
PrimeIfNew(r, tok, cachedBefore) ==
  IF Failed(r) THEN r
  ELSE IF ~cachedBefore /\ LifecycleBits(r.w.store[tok].flags) = LIFECYCLE_SINGLETON
    THEN Ok(PrimeAll(r.w, tok), r.val)
  ELSE r

\* Vault._resolveLocal: fromEntry, then prime the cache. val is Undefined when
\* the token is not local.
ResolveLocal(w, tok, scope) ==
  IF ~w.store[tok].reg THEN Ok(w, Undefined)
  ELSE PrimeIfNew(FromEntrySync(w, tok, scope), tok, tok \in w.cache)

\* Vault._resolveRelic after _resolveLocal returned l: not found when the
\* token is not local.
OrNotFound(l, tok) ==
  IF Failed(l) \/ l.val # Undefined THEN l
  ELSE Fail(l.w, buildNotFoundError(l.w.store, tok, l.w.stack))

\* Vault._resolveRelic after the singleton cache missed and the scope
\* answered s.
AfterScopeCache(s, w, tok, scope) ==
  IF Failed(s) \/ s.val # Undefined THEN s
  ELSE OrNotFound(ResolveLocal(w, tok, scope), tok)

\* Vault._resolveRelic: singleton cache, scope (local registration, then scope
\* cache), local entry, not found.
ResolveRelic(w, tok, scope) ==
  IF TryGetFromSingletonCache(w, tok) # Undefined
    THEN Ok(w, TryGetFromSingletonCache(w, tok))
  ELSE AfterScopeCache(TryGetFromScopeCache(w, tok, scope), w, tok, scope)

\* Vault.resolve(token, {scope}): scope-local registration, singleton cache,
\* scope cache, local entry on the emptied scratch stack, not found.
Resolve(w, tok, scope) ==
  IF scope # NoScope /\ w.scopes[scope].local[tok] # Undefined
    THEN Ok(w, w.scopes[scope].local[tok])
  ELSE IF TryGetFromSingletonCache(w, tok) # Undefined
    THEN Ok(w, TryGetFromSingletonCache(w, tok))
  ELSE IF scope # NoScope /\ w.scopes[scope].disposed
    THEN Fail(w, Err("ScopeDisposed", <<>>, tok))
  ELSE IF scope # NoScope /\ w.scopes[scope].cache[tok] # Undefined
    THEN Ok(w, w.scopes[scope].cache[tok])
  ELSE IF w.store[tok].reg
    THEN PrimeIfNew(FromEntrySync([w EXCEPT !.stack = <<>>], tok, scope), tok,
                    tok \in w.cache)
  ELSE Fail(w, buildNotFoundError(w.store, tok, <<>>))

(***************************************************************************)
(* Asynchronous resolution (core/resolver-async.ts,                        *)
(* Activator.instantiateAsync, Vault._resolveRelicAsync).                  *)
(*                                                                         *)
(* A machine state m holds the world m.w, the top-level calls m.calls, the *)
(* traversal stack of every resolveAsync call m.stacks (the one array a    *)
(* call hands down to every resolution made on its behalf) and the frames  *)
(* m.frames. A frame is one invocation of _resolveRelicAsync (kind "res")  *)
(* or of instantiateAsync (kind "inst"), suspended at an await:            *)
(*   res:  check -> awaitShared | awaitInst | awaitTrans -> prime -> ok|err *)
(*   inst: queued -> awaitDeps -> awaitFactory -> ok|err                    *)
(* The frame of a shared singleton creation is the promise in              *)
(* entry.promise.                                                          *)
(***************************************************************************)
NewFrame(kind, tok, call, sig, scope, parent, shared) ==
  [kind |-> kind, tok |-> tok, call |-> call, sig |-> sig, scope |-> scope,
   parent |-> parent, shared |-> shared, pc |-> "check", pre |-> "miss",
   wait |-> 0, ab |-> FALSE, wasCached |-> FALSE, kids |-> <<>>,
   args |-> <<>>, doomed |-> FALSE, val |-> Undefined, err |-> NoError]

Settled(fr) == fr.pc \in {"ok", "err"}

\* A frame settles: a root resolution settles its top-level call too.
Settle(m, f, val, err, epochNow) ==
  LET fr == m.frames[f]
      pc2 == IF err.type = "none" THEN "ok" ELSE "err"
      m1 == [m EXCEPT !.frames[f].pc = pc2, !.frames[f].val = val,
                      !.frames[f].err = err]
  IN IF fr.kind = "res" /\ fr.parent = 0
       THEN [m1 EXCEPT !.calls[fr.call].status = pc2, !.calls[fr.call].val = val,
                       !.calls[fr.call].err = err, !.calls[fr.call].e1 = epochNow]
       ELSE m1

\* stack.pop() on the call's traversal stack: removes whatever is on top.
Pop(m, call) ==
  [m EXCEPT !.stacks[call] = IF @ = <<>> THEN @ ELSE Front(@)]

\* abortAsPromise(signal) at the moment a caller starts to wait: already
\* rejected when the signal is already aborted.
AbortedNow(m, sig) == sig # 0 /\ m.calls[sig].aborted

\* The call of _resolveRelicAsync up to its first await: the synchronous part
\* of _checkSingletonCacheAsync latches what the cache holds right now.
SpawnRes(m, tok, call, sig, scope, parent) ==
  LET e == m.w.store[tok]
      base == NewFrame("res", tok, call, sig, scope, parent, FALSE)
      fr == IF tok \notin m.w.cache \/ LifecycleBits(e.flags) # LIFECYCLE_SINGLETON
              THEN base
            ELSE IF IsSingletonWithInstance(e.flags)
              THEN [base EXCEPT !.pre = "val", !.val = e.instance]
            ELSE IF e.promise # 0
              THEN [base EXCEPT !.pre = "wait", !.wait = e.promise]
            ELSE base
  IN [m EXCEPT !.frames = Append(@, fr)]

\* deps.map(d => vault._resolveRelicAsync(d, stack, signal, scope)): every
\* dependency's resolution is started, in order, before any of them runs on.
RECURSIVE SpawnDeps(_, _, _)
SpawnDeps(m, i, deps) ==
  IF deps = <<>> THEN m
  ELSE LET fr == m.frames[i]
           m1 == SpawnRes(m, Head(deps), fr.call, fr.sig, fr.scope, i)
           k == Len(m1.frames)
       IN SpawnDeps([m1 EXCEPT !.frames[i].kids = Append(@, k)], i, Tail(deps))

\* A .catch handler that leaves the rejected promise in the entry.
OnCreationFailedKeepsPromise(w, tok) == w

\* The .catch handler of the shared creation: entry.promise = undefined.
OnCreationFailed(w, tok) == [w EXCEPT !.store[tok].promise = 0]

\* The shared creation's .then / .catch handlers (resolver-async.ts): commit
\* the instance and prime the cache, or only clear entry.promise.
SettleShared(m, i, val, err, epochNow) ==
  LET tok == m.frames[i].tok
      m1 == IF err.type = "none"
              THEN [m EXCEPT !.w = CommitSingleton([@ EXCEPT !.store[tok].promise = 0],
                                                   tok, val)]
              ELSE [m EXCEPT !.w = OnCreationFailed(@, tok)]
  IN Settle(m1, i, val, err, epochNow)

\* An instantiation settles: a shared creation goes through its handlers.
SettleInst(m, i, val, err, epochNow) ==
  IF m.frames[i].shared THEN SettleShared(m, i, val, err, epochNow)
  ELSE Settle(m, i, val, err, epochNow)

\* The error instantiateAsync rethrows for a factory that threw: the abort
\* flavour when the signal it was given is aborted, FactoryExecutionError
\* otherwise. A constructor's throw is passed on as it is.
WrapInstError(m, i, e) ==
  IF m.w.store[m.frames[i].tok].factory = "none" THEN e
  ELSE IF AbortedNow(m, m.frames[i].sig) THEN Err("FactoryAborted", <<>>, e.tok)
  ELSE Err("FactoryExecution", <<>>, e.tok)

\* new ctor(...args) or a plain factory's call inside instantiateAsync.
ConstructAsync(m, i, args, epochNow) ==
  LET r == Construct(m.w, m.frames[i].tok, args)
      m1 == [m EXCEPT !.w = r.w]
  IN IF Failed(r) THEN SettleInst(m1, i, Undefined, WrapInstError(m1, i, r.err), epochNow)
     ELSE SettleInst(m1, i, r.val, NoError, epochNow)

\* instantiateAsync up to its first await.
InstStart(m, i, epochNow) ==
  LET tok == m.frames[i].tok
      e == m.w.store[tok]
  IN IF e.factory # "none"
       THEN SpawnDeps([m EXCEPT !.frames[i].pc = "awaitDeps"], i, e.factoryDeps)
     ELSE IF ~e.ctor
       THEN IF e.instance # Undefined THEN SettleInst(m, i, e.instance, NoError, epochNow)
            ELSE SettleInst(m, i, Undefined, Err("UnconstructableRelic", <<>>, tok), epochNow)
     ELSE IF HasFlag(e.flags, FLAG_HAS_NO_DEPS) THEN ConstructAsync(m, i, <<>>, epochNow)
     ELSE SpawnDeps([m EXCEPT !.frames[i].pc = "awaitDeps"], i, e.summons)

\* A resolver without the in-flight slot: every caller starts a creation.
NeedsNewCreationAlways(e) == TRUE

\* if (!entry.promise): whether this caller has to start the shared creation.
NeedsNewCreation(e) == e.promise = 0

\* A shared creation that is handed the signal of the caller that started it.
SharedCreationSignalOfCaller(sig) == sig

\* The signal the shared creation is given: none, whatever the caller's is.
SharedCreationSignal(sig) == 0

\* ResolverAsync.fromEntry from its start to its first await, for a frame
\* whose token is registered: cycle detection, push, lifecycle dispatch.
FromEntryAsync(m, f, epochNow) ==
  LET fr == m.frames[f]
      tok == fr.tok
      e == m.w.store[tok]
      stack == m.stacks[fr.call]
      lifecycleFlags == LifecycleBits(e.flags)
      pushed == [m EXCEPT !.stacks[fr.call] = Append(@, tok)]
      next == Len(m.frames) + 1
  IN
  IF Contains(stack, tok)
    THEN Settle(m, f, Undefined,
                Err("CircularDependency", CycleTrace(m.w.store, stack, tok), tok), epochNow)
  ELSE IF lifecycleFlags = LIFECYCLE_SINGLETON THEN
    IF HasFlag(e.flags, FLAG_HAS_INSTANCE)
      \* returns at once; the finally pops what was just pushed
      THEN [m EXCEPT !.frames[f].pc = "prime", !.frames[f].val = e.instance]
    ELSE
      LET m1 == IF ~NeedsNewCreation(e) THEN pushed
                ELSE [pushed EXCEPT
                        !.frames = Append(@, [NewFrame("inst", tok, fr.call,
                                                       SharedCreationSignal(fr.sig),
                                                       NoScope, 0, TRUE)
                                                EXCEPT !.pc = "queued"]),
                        !.w.store[tok].promise = next]
      IN [m1 EXCEPT !.frames[f].pc = "awaitShared",
                    !.frames[f].wait = m1.w.store[tok].promise,
                    !.frames[f].ab = AbortedNow(m, fr.sig)]
  ELSE IF lifecycleFlags = LIFECYCLE_SCOPED THEN
    IF fr.scope = NoScope
      THEN Settle(m, f, Undefined,
                  Err("ScopedWithoutScope", DescribeAll(m.w.store, Append(stack, tok)), tok),
                  epochNow)
    ELSE IF m.w.scopes[fr.scope].disposed
      THEN Settle(m, f, Undefined, Err("ScopeDisposed", <<>>, tok), epochNow)
    ELSE IF m.w.scopes[fr.scope].cache[tok] # Undefined
      THEN Settle(m, f, m.w.scopes[fr.scope].cache[tok], NoError, epochNow)
    ELSE
      \* instantiateAsync is called directly and runs to its first await
      LET m1 == [pushed EXCEPT
                   !.frames = Append(@, NewFrame("inst", tok, fr.call, fr.sig, fr.scope,
                                                 f, FALSE)),
                   !.frames[f].pc = "awaitInst", !.frames[f].wait = next]
      IN InstStart(m1, next, epochNow)
  ELSE
    \* transient: Promise.resolve().then(() => instantiateAsync(...)) raced
    \* against the caller's signal
    [pushed EXCEPT
       !.frames = Append(@, [NewFrame("inst", tok, fr.call, fr.sig, fr.scope, f, FALSE)
                               EXCEPT !.pc = "queued"]),
       !.frames[f].pc = "awaitTrans", !.frames[f].wait = next,
       !.frames[f].ab = AbortedNow(m, fr.sig)]

\* _resolveRelicAsync after the cache check missed: scope cache, local entry
\* (fromEntry), not found.
AfterCacheMiss(m, f, epochNow) ==
  LET fr == m.frames[f]
      s == TryGetFromScopeCache(m.w, fr.tok, fr.scope)
  IN IF Failed(s) THEN Settle(m, f, Undefined, s.err, epochNow)
     ELSE IF s.val # Undefined THEN Settle(m, f, s.val, NoError, epochNow)
     ELSE IF ~m.w.store[fr.tok].reg
       THEN Settle(m, f, Undefined,
                   buildNotFoundError(m.w.store, fr.tok, m.stacks[fr.call]), epochNow)
     ELSE FromEntryAsync([m EXCEPT !.frames[f].wasCached = fr.tok \in m.w.cache],
                         f, epochNow)

\* Whether the frame can run on: what it awaits has settled (or, for a wait
\* raced against a signal, the signal fired first).
CanStep(m, f) ==
  LET fr == m.frames[f] IN
  CASE fr.pc = "check" ->
         IF fr.pre = "wait" THEN Settled(m.frames[fr.wait]) ELSE TRUE
    [] fr.pc \in {"awaitShared", "awaitTrans"} ->
         IF fr.ab THEN TRUE ELSE Settled(m.frames[fr.wait])
    [] fr.pc = "awaitInst" -> Settled(m.frames[fr.wait])
    [] fr.pc \in {"prime", "queued", "awaitFactory"} -> TRUE
    [] fr.pc = "awaitDeps" ->
         IF \E i \in 1..Len(fr.kids) : m.frames[fr.kids[i]].pc = "err" THEN TRUE
         ELSE \A i \in 1..Len(fr.kids) : m.frames[fr.kids[i]].pc = "ok"
    [] OTHER -> FALSE

\* One frame runs from the await it is suspended at to its next await. bad is
\* the rejected dependency Promise.all reports when some have rejected.
StepFrame(m, f, bad, epochNow) ==
  LET fr == m.frames[f]
      awaited == m.frames[fr.wait]
  IN
  CASE fr.pc = "check" ->
         IF fr.pre = "val" THEN Settle(m, f, fr.val, NoError, epochNow)
         ELSE IF fr.pre = "wait" THEN
           IF awaited.pc = "ok" THEN Settle(m, f, awaited.val, NoError, epochNow)
           ELSE Settle(m, f, Undefined, awaited.err, epochNow)
         ELSE AfterCacheMiss(m, f, epochNow)
    [] fr.pc = "awaitShared" ->
         IF fr.ab THEN Settle(Pop(m, fr.call), f, Undefined, Err("Abort", <<>>, fr.tok),
                              epochNow)
         ELSE IF awaited.pc = "ok"
           THEN [Pop(m, fr.call) EXCEPT !.frames[f].pc = "prime",
                                        !.frames[f].val = awaited.val]
         ELSE Settle(Pop(m, fr.call), f, Undefined, awaited.err, epochNow)
    [] fr.pc = "prime" ->
         \* _resolveLocalAsync after fromEntry returned
         Settle(IF ~fr.wasCached
                   /\ LifecycleBits(m.w.store[fr.tok].flags) = LIFECYCLE_SINGLETON
                  THEN [m EXCEPT !.w = PrimeAll(@, fr.tok)] ELSE m,
                f, fr.val, NoError, epochNow)
    [] fr.pc = "awaitInst" ->
         IF awaited.pc = "ok" THEN
           LET c == CommitScoped(m.w, fr.tok, fr.scope, awaited.val)
           IN Settle(Pop([m EXCEPT !.w = c.w], fr.call), f, c.val, c.err, epochNow)
         ELSE Settle(Pop(m, fr.call), f, Undefined, awaited.err, epochNow)
    [] fr.pc = "awaitTrans" ->
         IF fr.ab THEN Settle(Pop(m, fr.call), f, Undefined, Err("Abort", <<>>, fr.tok),
                              epochNow)
         ELSE IF awaited.pc = "ok"
           THEN Settle(Pop(m, fr.call), f, awaited.val, NoError, epochNow)
         ELSE Settle(Pop(m, fr.call), f, Undefined, awaited.err, epochNow)
    [] fr.pc = "queued" -> InstStart(m, f, epochNow)
    [] fr.pc = "awaitDeps" ->
         IF bad # 0 THEN SettleInst(m, f, Undefined, m.frames[bad].err, epochNow)
         ELSE IF m.w.store[fr.tok].factory = "async" THEN
           \* the factory is called and returns a relics promise
           [m EXCEPT !.w.invoked[fr.tok] = @ + 1,
                     !.w.flaky[fr.tok] = IF @ > 0 THEN @ - 1 ELSE @,
                     !.frames[f].pc = "awaitFactory",
                     !.frames[f].doomed = m.w.flaky[fr.tok] > 0,
                     !.frames[f].args = [i \in 1..Len(fr.kids) |-> m.frames[fr.kids[i]].val]]
         ELSE ConstructAsync(m, f, [i \in 1..Len(fr.kids) |-> m.frames[fr.kids[i]].val],
                             epochNow)
    [] fr.pc = "awaitFactory" ->
         \* the factory's promise settles
         IF fr.doomed
           THEN SettleInst(m, f, Undefined,
                           WrapInstError(m, f, Err("FactoryExecution", <<>>, fr.tok)), epochNow)
           ELSE SettleInst([m EXCEPT !.w.heap = Append(@, [tok |-> fr.tok, args |-> fr.args])],
                           f, Len(m.w.heap) + 1, NoError, epochNow)
    [] OTHER -> m

(***************************************************************************)
(* State.                                                                  *)
(***************************************************************************)
VARIABLES
  phase,     \* "new" before the constructor ran, then "sealed" or "failed"
  relics,    \* the relics the constructor was given, in order
  ctorError, \* what the constructor threw
  store,     \* EntryStore.entries
  cache,     \* keys of Vault.cache
  scopes,    \* the scopes created from the vault
  heap,      \* instances built so far
  invoked,   \* constructor / factory invocations per token
  flaky,     \* upcoming failing invocations per token
  calls,     \* the top-level resolve / resolveAsync calls made so far
  stacks,    \* the traversal stack of each call
  frames,    \* the asynchronous frames
  epoch,     \* clear() calls so far
  disposed,  \* Vault.disposed
  disposers, \* what the dispose() / close() method of a token's instances does
  runs,      \* the disposer invocations made so far
  dcalls,    \* the dispose() calls made so far
  registry,  \* the configuration of each container of the fusion graph
  vaults,    \* the containers of the fusion graph
  outcome    \* the last operation made on a container of the fusion graph

disposalVars == <<disposed, disposers, runs, dcalls>>

fusionVars == <<registry, vaults, outcome>>

vars == <<phase, relics, ctorError, store, cache, scopes, heap, invoked, flaky,
          calls, stacks, frames, epoch, disposed, disposers, runs, dcalls,
          registry, vaults, outcome>>

World ==
  [store |-> store, cache |-> cache, scopes |-> scopes, heap |-> heap,
   invoked |-> invoked, flaky |-> flaky, stack |-> <<>>, depth |-> 0,
   kinds |-> disposers]

Machine == [w |-> World, calls |-> calls, stacks |-> stacks, frames |-> frames]

InstallWorld(w) ==
  /\ store' = w.store
  /\ cache' = w.cache
  /\ scopes' = w.scopes
  /\ heap' = w.heap
  /\ invoked' = w.invoked
  /\ flaky' = w.flaky

Install(m) ==
  /\ InstallWorld(m.w)
  /\ calls' = m.calls
  /\ stacks' = m.stacks
  /\ frames' = m.frames

\* A top-level call as the caller sees it. e0 / e1 are the clear() counts when
\* it was made and when it settled, loc the scope's local registrations and h0
\* the number of instances built when it was made, d0 the number of dispose()
\* calls made before it and dis the value of Vault.disposed when it was made,
\* sd whether its scope was disposed when it was made.
NewCall(kind, tok, scope, signal) ==
  [kind |-> kind, tok |-> tok, scope |-> scope, signal |-> signal,
   aborted |-> FALSE, status |-> "run", val |-> Undefined, err |-> NoError,
   e0 |-> epoch, e1 |-> epoch,
   loc |-> IF scope = NoScope THEN NoScopeState.local ELSE scopes[scope].local,
   h0 |-> Len(heap), d0 |-> Len(dcalls), dis |-> disposed,
   sd |-> IF scope = NoScope THEN FALSE ELSE scopes[scope].disposed]

\* No dispose() call has been made; kinds tells what the disposers do.
NotDisposed(kinds) ==
  /\ disposed = FALSE
  /\ disposers = kinds
  /\ runs = <<>>
  /\ dcalls = <<>>

\* The instances of no token have a dispose() or close() method.
NoDisposers == [t \in Tokens |-> "none"]

\* The container stands alone: there is no fusion graph.
NoFusion ==
  /\ registry = <<>>
  /\ vaults = <<>>
  /\ outcome = [op |-> "none"]

\* The state a constructed Vault starts from, fusion apart.
SingleVault(providers, flakiness, kinds) ==
  /\ RegisterAll(EmptyStore, providers).err.type = "none"
  /\ NotDisposed(kinds)
  /\ phase = "sealed"
  /\ relics = providers
  /\ ctorError = NoError
  /\ store = RegisterAll(EmptyStore, providers).store
  /\ cache = {}
  /\ scopes = [s \in Scopes |-> NoScopeState]
  /\ heap = <<>>
  /\ invoked = [t \in Tokens |-> 0]
  /\ flaky = flakiness
  /\ calls = <<>>
  /\ stacks = <<>>
  /\ frames = <<>>
  /\ epoch = 0

\* The state a constructed Vault without fused containers starts from.
ConstructedWith(providers, flakiness, kinds) ==
  /\ SingleVault(providers, flakiness, kinds)
  /\ NoFusion

Constructed(providers, flakiness) ==
  ConstructedWith(providers, flakiness, NoDisposers)

(***************************************************************************)
(* Operations.                                                             *)
(***************************************************************************)
\* The call record of a synchronous resolve that returned r.
SyncCall(r, tok, scope) ==
  [NewCall("sync", tok, scope, FALSE) EXCEPT
     !.status = IF Failed(r) THEN "err" ELSE "ok", !.val = r.val, !.err = r.err]

\* vault.resolve(token, {scope}).
ResolveCall(tok, scope) ==
  /\ phase = "sealed"
  /\ Len(calls) < MaxCalls
  /\ LET r == Resolve(World, tok, scope)
     IN /\ InstallWorld(r.w)
        /\ calls' = Append(calls, SyncCall(r, tok, scope))
        /\ stacks' = Append(stacks, <<>>)
  /\ UNCHANGED <<phase, relics, ctorError, frames, epoch>>
  /\ UNCHANGED disposalVars
  /\ UNCHANGED fusionVars

\* vault.resolveAsync(token, {signal, scope}) up to its first await.
ResolveAsyncCall(tok, scope, signal) ==
  /\ phase = "sealed"
  /\ Len(calls) < MaxCalls
  /\ Len(frames) < MaxFrames
  /\ LET c == Len(calls) + 1
         m == [Machine EXCEPT !.calls = Append(@, NewCall("async", tok, scope, signal)),
                              !.stacks = Append(@, <<>>)]
     IN Install(SpawnRes(m, tok, c, IF signal THEN c ELSE 0, scope, 0))
  /\ UNCHANGED <<phase, relics, ctorError, epoch>>
  /\ UNCHANGED disposalVars
  /\ UNCHANGED fusionVars

\* controller.abort() on the signal of call c: every wait raced against it
\* that has not been won by its promise yet is lost to the abort.
Abort(c) ==
  /\ c \in 1..Len(calls)
  /\ calls[c].signal /\ ~calls[c].aborted
  /\ calls' = [calls EXCEPT ![c].aborted = TRUE]
  /\ frames' = [f \in 1..Len(frames) |->
                  IF /\ frames[f].sig = c
                     /\ frames[f].pc \in {"awaitShared", "awaitTrans"}
                     /\ ~Settled(frames[frames[f].wait])
                    THEN [frames[f] EXCEPT !.ab = TRUE] ELSE frames[f]]
  /\ UNCHANGED <<phase, relics, ctorError, store, cache, scopes, heap, invoked,
                 flaky, stacks, epoch>>
  /\ UNCHANGED disposalVars
  /\ UNCHANGED fusionVars

\* The event loop runs frame f on from its await.
RunFrame(f) ==
  /\ f \in 1..Len(frames)
  /\ CanStep(Machine, f)
  /\ \E bad \in 0..Len(frames) :
       /\ IF frames[f].pc = "awaitDeps"
               /\ \E i \in 1..Len(frames[f].kids) : frames[frames[f].kids[i]].pc = "err"
            THEN /\ bad \in SeqToSet(frames[f].kids)
                 /\ frames[bad].pc = "err"
            ELSE bad = 0
       /\ Len(StepFrame(Machine, f, bad, epoch).frames) <= MaxFrames
       /\ Install(StepFrame(Machine, f, bad, epoch))
  /\ UNCHANGED <<phase, relics, ctorError, epoch>>
  /\ UNCHANGED disposalVars
  /\ UNCHANGED fusionVars

\* new Vault({relics}): registers the relics in order; the first error ends
\* the construction.
NewVault(ps) ==
  /\ phase = "new"
  /\ LET r == RegisterAll(EmptyStore, ps)
     IN /\ relics' = ps
        /\ store' = r.store
        /\ ctorError' = r.err
        /\ phase' = IF r.err.type = "none" THEN "sealed" ELSE "failed"
  /\ UNCHANGED <<cache, scopes, heap, invoked, flaky, calls, stacks, frames, epoch>>
  /\ UNCHANGED disposalVars
  /\ UNCHANGED fusionVars

\* vault.clear(): drops every instance, in-flight promise and the cache.
Clear ==
  /\ phase = "sealed"
  /\ epoch < MaxEpoch
  /\ store' = [t \in Tokens |->
                 [store[t] EXCEPT
                    !.instance = Undefined,
                    !.flags = IF store[t].instance # Undefined
                                THEN ClearFlag(@, FLAG_HAS_INSTANCE) ELSE @,
                    !.promise = 0]]
  /\ cache' = {}
  /\ epoch' = epoch + 1
  /\ UNCHANGED <<phase, relics, ctorError, scopes, heap, invoked, flaky, calls,
                 stacks, frames>>
  /\ UNCHANGED disposalVars
  /\ UNCHANGED fusionVars

\* What calling instance.dispose() / instance.close() can do: there is no such
\* method ("none"), it returns undefined, returns null, throws, or returns a
\* promise that resolves or one that rejects.
DisposerKinds == {"none", "void", "null", "throw", "resolve", "reject"}
AsyncKinds == {"resolve", "reject"}

\* store.canonicalKeys(): the registered tokens in registration order.
canonicalKeys == [i \in 1..Len(relics) |-> relics[i].tok]

\* One iteration of the loop of dispose(), over the entry of tok, in the
\* dispose() call d. An entry without an instance is skipped whole. A thrown
\* error is pushed to errors; so is the TypeError of reading `.then` of a
\* returned null, which passes the typeof result === 'object' test inside the
\* try block. A returned promise is pushed to pending.
DisposeEntry(a, tok, d) ==
  LET entry == a.store[tok]
      kind == disposers[tok]
      r == Len(a.runs) + 1
      run == [tok |-> tok, val |-> entry.instance, kind |-> kind, call |-> d,
              settled |-> kind \notin AsyncKinds, scope |-> NoScope,
              id |-> NoDisposer, src |-> "entry"]
      cleared == [a EXCEPT !.store[tok] =
                    [entry EXCEPT !.instance = Undefined, !.promise = 0,
                                  !.flags = ClearFlag(@, FLAG_HAS_INSTANCE)]]
  IN IF entry.instance = Undefined THEN a
     ELSE IF kind = "none" THEN cleared
     ELSE [cleared EXCEPT
             !.runs = Append(@, run),
             !.errors = IF kind \in {"throw", "null"} THEN Append(@, r) ELSE @,
             !.pending = IF kind \in AsyncKinds THEN Append(@, r) ELSE @]

\* The instances with a disposer that the entries hold.
Materialized ==
  {store[t].instance : t \in {u \in Tokens : /\ store[u].reg
                                             /\ store[u].instance # Undefined
                                             /\ disposers[u] # "none"}}

RECURSIVE DisposeEntries(_, _, _)
DisposeEntries(a, keys, d) ==
  IF keys = <<>> THEN a
  ELSE DisposeEntries(DisposeEntry(a, Head(keys), d), Tail(keys), d)

\* The outcome of a dispose() call whose disposal attempts have all settled.
DisposeStatus(errors) == IF errors # <<>> THEN "err" ELSE "ok"

\* Vault.disposed after the loop of dispose(): set when nothing is pending.
DisposedAfterLoop(pending) == pending = <<>>

\* vault.dispose() up to its return or to Promise.allSettled(pending).
Dispose ==
  /\ phase = "sealed"
  /\ Len(dcalls) < MaxDispose
  /\ IF disposed
       THEN /\ dcalls' = Append(dcalls, [status |-> "ok", errors |-> <<>>,
                                         pending |-> <<>>, early |-> TRUE,
                                         held |-> {}])
            /\ UNCHANGED <<store, cache, disposed, runs>>
       ELSE LET a == DisposeEntries([store |-> store, errors |-> <<>>,
                                     pending |-> <<>>, runs |-> runs],
                                    canonicalKeys, Len(dcalls) + 1)
            IN /\ store' = a.store
               /\ cache' = {}
               /\ runs' = a.runs
               /\ disposed' = DisposedAfterLoop(a.pending)
               /\ dcalls' = Append(dcalls,
                    [status |-> IF a.pending # <<>> THEN "pending"
                                ELSE DisposeStatus(a.errors),
                     errors |-> a.errors, pending |-> a.pending,
                     early |-> FALSE, held |-> Materialized])
  /\ UNCHANGED <<phase, relics, ctorError, scopes, heap, invoked, flaky, calls,
                 stacks, frames, epoch, disposers>>
  /\ UNCHANGED fusionVars

\* The promise returned by a disposer settles.
SettleDisposer(r) ==
  /\ r \in 1..Len(runs)
  /\ ~runs[r].settled
  /\ runs' = [runs EXCEPT ![r].settled = TRUE]
  /\ UNCHANGED <<phase, relics, ctorError, store, cache, scopes, heap, invoked,
                 flaky, calls, stacks, frames, epoch, disposed, disposers,
                 dcalls>>
  /\ UNCHANGED fusionVars

\* The rejected results of Promise.allSettled(pending), in order.
RECURSIVE Rejected(_)
Rejected(pending) ==
  IF pending = <<>> THEN <<>>
  ELSE (IF runs[Head(pending)].kind = "reject" THEN <<Head(pending)>> ELSE <<>>)
       \o Rejected(Tail(pending))

\* The continuation of Promise.allSettled(pending) in the dispose() call d.
AllSettled(d) ==
  /\ d \in 1..Len(dcalls)
  /\ dcalls[d].status = "pending"
  /\ \A i \in 1..Len(dcalls[d].pending) : runs[dcalls[d].pending[i]].settled
  /\ disposed' = TRUE
  /\ dcalls' = [dcalls EXCEPT
       ![d].errors = @ \o Rejected(dcalls[d].pending),
       ![d].status = DisposeStatus(dcalls[d].errors \o Rejected(dcalls[d].pending))]
  /\ UNCHANGED <<phase, relics, ctorError, store, cache, scopes, heap, invoked,
                 flaky, calls, stacks, frames, epoch, disposers, runs>>
  /\ UNCHANGED fusionVars


(***************************************************************************)
(* Fusion. A container of the fusion graph is identified by a number that  *)
(* is also its name; its relics are value providers, so a resolved value   *)
(* is told by the container that produced it.                              *)
(***************************************************************************)
VaultIds == {1, 2, 3, 4}
NoVault == 0
NoInstance == 0
FTokens == {"A", "B"}

\* A fuse item: a built Vault instance or a deferred class reference.
BuiltRef(v) == [kind |-> "built", v |-> v]
ClassRef(v) == [kind |-> "class", v |-> v]

\* A VaultConfig.
Config(aether, relicSet, reveal, fuse, shadowPolicy) ==
  [aether |-> aether, relics |-> relicSet, reveal |-> reveal, fuse |-> fuse,
   shadowPolicy |-> shadowPolicy]

\* A new ExposureIndex.
NewExposure ==
  [aether |-> [t \in FTokens |-> NoVault],
   revealed |-> [t \in FTokens |-> NoVault],
   computed |-> FALSE, version |-> 0, visited |-> {}, pairCache |-> {},
   order |-> <<>>, pushed |-> <<>>]

\* A container that has not been constructed yet. Of its own entries it keeps
\* the instance each holds (instance: a serial number, NoInstance for
\* undefined) and the number of instances each has held (made); clears counts
\* its clear() calls; seen are the instances its resolve() has returned for a
\* token, as pairs of producing container and serial number, and stale those
\* it had returned before its latest clear().
Unbuilt ==
  [built |-> FALSE, fusedVaults |-> <<>>, lazyAttachmentClasses |-> <<>>,
   lazyAttachmentsResolved |-> FALSE, exposure |-> NewExposure,
   cache |-> [t \in FTokens |-> NoVault],
   instance |-> [t \in FTokens |-> NoInstance],
   made |-> [t \in FTokens |-> 0], clears |-> 0,
   seen |-> [t \in FTokens |-> {}], stale |-> [t \in FTokens |-> {}]]

\* A variant of indexVault that indexes every registered token.
indexVaultAllRelics(ex, vault) ==
  LET target == IF registry[vault].aether THEN "aether" ELSE "revealed"
  IN [ex EXCEPT
        ![target] = [t \in FTokens |->
                       IF t \in registry[vault].relics /\ ex[target][t] = NoVault
                         THEN vault ELSE ex[target][t]],
        !.order = Append(@, vault)]
\* ExposureIndex.indexVault: the revealed tokens the vault has an entry for go
\* to the aether map of an aether host and to the revealed map otherwise,
\* unless the map holds the token already. An alias of an entry is its
\* canonical id. order lists the vaults in the order they were indexed.
indexVault(ex, vault) ==
  LET target == IF registry[vault].aether THEN "aether" ELSE "revealed"
  IN [ex EXCEPT
        ![target] = [t \in FTokens |->
                       IF /\ t \in registry[vault].reveal
                          /\ t \in registry[vault].relics
                          /\ ex[target][t] = NoVault
                         THEN vault ELSE ex[target][t]],
        !.order = Append(@, vault)]

\* One iteration of the loop over current.fusedVaults in compute(): markPair
\* and, for a pair not seen before, the push. pushed lists the pairs whose
\* fused vault was pushed, in order.
PushFused(st, from, fused) ==
  IF <<from, fused>> \in st.ex.pairCache THEN st
  ELSE [st EXCEPT !.ex.pairCache = @ \cup {<<from, fused>>},
                  !.ex.pushed = Append(@, <<from, fused>>),
                  !.stack = Append(@, fused)]

RECURSIVE PushAllFused(_, _, _)
PushAllFused(st, from, fusedList) ==
  IF fusedList = <<>> THEN st
  ELSE PushAllFused(PushFused(st, from, Head(fusedList)), from, Tail(fusedList))

\* A loop body without the visited check: every popped vault is indexed.
VisitEveryPop(st, vs) ==
  LET current == st.stack[Len(st.stack)]
      popped == [st EXCEPT !.stack = Front(st.stack)]
  IN PushAllFused(
       [popped EXCEPT
          !.ex = indexVault([@ EXCEPT !.visited = @ \cup {current}], current)],
       current, vs[current].fusedVaults)
\* One iteration of the while loop of compute(): pops the top of the stack.
Visit(st, vs) ==
  LET current == st.stack[Len(st.stack)]
      popped == [st EXCEPT !.stack = Front(st.stack)]
  IN IF current \in st.ex.visited THEN popped
     ELSE PushAllFused(
            [popped EXCEPT
               !.ex = indexVault([@ EXCEPT !.visited = @ \cup {current}], current)],
            current, vs[current].fusedVaults)

RECURSIVE Traverse(_, _)
Traverse(st, vs) == IF st.stack = <<>> THEN st ELSE Traverse(Visit(st, vs), vs)

\* A variant of compute that traverses and stamps on every call.
computeEveryCall(ex, root, vs) ==
  [Traverse([ex |-> ex, stack |-> <<root>>], vs).ex EXCEPT
     !.computed = TRUE, !.version = @ + 1]
\* ExposureIndex.compute(root) on the index ex of root.
compute(ex, root, vs) ==
  IF ex.computed THEN ex
  ELSE [Traverse([ex |-> ex, stack |-> <<root>>], vs).ex EXCEPT
          !.computed = TRUE, !.version = @ + 1]

\* The fuse items of a configuration of one kind, in order.
RECURSIVE ItemsOfKind(_, _)
ItemsOfKind(fuse, kind) ==
  IF fuse = <<>> THEN <<>>
  ELSE (IF Head(fuse).kind = kind THEN <<Head(fuse).v>> ELSE <<>>)
       \o ItemsOfKind(Tail(fuse), kind)

\* new Vault(config) for the container v: built fuse items are attached,
\* class items deferred, and the exposure index is computed when a fused
\* container is attached already. No shadow-policy check is made.
ConstructVault(vs, v) ==
  LET attached == [vs EXCEPT ![v] =
                     [Unbuilt EXCEPT
                        !.built = TRUE,
                        !.instance = [t \in FTokens |->
                           IF t \in registry[v].relics THEN 1 ELSE NoInstance],
                        !.made = [t \in FTokens |->
                           IF t \in registry[v].relics THEN 1 ELSE 0],
                        !.fusedVaults = ItemsOfKind(registry[v].fuse, "built"),
                        !.lazyAttachmentClasses = ItemsOfKind(registry[v].fuse, "class")]]
  IN IF attached[v].fusedVaults = <<>> THEN attached
     ELSE [attached EXCEPT ![v].exposure = compute(@, v, attached)]

\* Genesis.from(cls): the cached container of the class, constructed on the
\* first request.
GenesisFrom(vs, cls) == IF vs[cls].built THEN vs ELSE ConstructVault(vs, cls)

\* The loop of resolveLazyAttachments: every deferred class is materialized
\* and pushed to fusedVaults.
RECURSIVE AttachLazy(_, _, _)
AttachLazy(vs, v, classes) ==
  IF classes = <<>> THEN vs
  ELSE AttachLazy([GenesisFrom(vs, Head(classes)) EXCEPT
                     ![v].fusedVaults = Append(@, Head(classes))],
                  v, Tail(classes))

\* One step of _checkCircularAttachment, the recursion kept as a list of
\* frames: each frame holds the vaults its loop has still to look at and the
\* vault whose fusedVaults they are; path and stack are the DFS path.
CheckStep(st, vs) ==
  LET top == st.frames[Len(st.frames)]
  IN IF top.vaults = <<>>
       THEN [st EXCEPT !.frames = Front(@),
                       !.path = IF Len(st.frames) = 1 THEN @ ELSE Front(@),
                       !.stack = @ \ {top.of}]
       ELSE LET v == Head(top.vaults)
            IN IF v \in st.stack
                 THEN [st EXCEPT !.cycle = Append(st.path, v), !.frames = <<>>]
                 ELSE [st EXCEPT
                         !.frames = Append([@ EXCEPT ![Len(@)].vaults = Tail(@)],
                                           [vaults |-> vs[v].fusedVaults, of |-> v]),
                         !.path = Append(@, v),
                         !.stack = @ \cup {v}]

RECURSIVE CheckLoop(_, _)
CheckLoop(st, vs) == IF st.frames = <<>> THEN st ELSE CheckLoop(CheckStep(st, vs), vs)

\* this._checkCircularAttachment(this.fusedVaults, [this.name], new Set([this])):
\* the names along the cycle found, or <<>>.
checkCircularAttachment(vs, v) ==
  CheckLoop([frames |-> <<[vaults |-> vs[v].fusedVaults, of |-> NoVault]>>,
             path |-> <<v>>, stack |-> {v}, cycle |-> <<>>], vs).cycle

\* The end of resolveLazyAttachments after the loop: the cycle check, then
\* compute() and the resolved flag. An error leaves the pushed vaults.
AfterAttach(vs, v) ==
  LET cycle == checkCircularAttachment(vs, v)
  IN IF cycle # <<>>
       THEN [vs |-> vs, err |-> Err("CircularVaultAttachment", cycle, "")]
       ELSE [vs |-> [vs EXCEPT ![v].exposure = compute(@, v, vs),
                               ![v].lazyAttachmentsResolved = TRUE],
             err |-> NoError]

\* Vault.resolveLazyAttachments.
resolveLazyAttachments(vs, v) ==
  IF vs[v].lazyAttachmentsResolved THEN [vs |-> vs, err |-> NoError]
  ELSE AfterAttach(AttachLazy(vs, v, vs[v].lazyAttachmentClasses), v)

\* A variant that prefers the explicit reveal map.
findCrossVaultEntryRevealedFirst(ex, tok) ==
  IF ex.revealed[tok] # NoVault THEN ex.revealed[tok] ELSE ex.aether[tok]
\* Vault._findCrossVaultEntry: aetherMap.get(token) ?? revealedMap.get(token).
findCrossVaultEntry(ex, tok) ==
  IF ex.aether[tok] # NoVault THEN ex.aether[tok] ELSE ex.revealed[tok]

\* The outcome of an operation op on the container v.
Outcome(op, v, tok, status, val, err) ==
  [op |-> op, v |-> v, tok |-> tok, status |-> status, val |-> val, err |-> err,
   violations |-> {}, inst |-> NoInstance]

\* ResolverSync.fromEntry on the entry of tok in the container p, a
\* value-backed singleton whose value has a constructor: the instance the
\* entry holds, else `new ctor()` committed to the entry and primed in the
\* cache of p.
fromEntryFused(vs, p, tok) ==
  IF vs[p].instance[tok] # NoInstance THEN vs
  ELSE [vs EXCEPT ![p].made[tok] = @ + 1,
                  ![p].instance[tok] = vs[p].made[tok] + 1,
                  ![p].cache[tok] = p]

\* resolve() on the container v returns the instance the entry of tok in the
\* container p holds, and the cache of v is primed with that entry.
Returned(vs, v, tok, p) ==
  [vs |-> [vs EXCEPT ![v].cache[tok] = p,
                     ![v].seen[tok] = @ \cup {<<p, vs[p].instance[tok]>>}],
   out |-> [Outcome("resolve", v, tok, "ok", p, NoError) EXCEPT
              !.inst = vs[p].instance[tok]]]

\* The cross-vault part of resolve(): lazy attachments, then the exposure
\* maps; the entry found gives its instance or is resolved by the resolver
\* of its own container, and primes the cache of the resolving container.
CrossVault(l, v, tok) ==
  IF l.err.type # "none"
    THEN [vs |-> l.vs, out |-> Outcome("resolve", v, tok, "err", NoVault, l.err)]
  ELSE IF findCrossVaultEntry(l.vs[v].exposure, tok) # NoVault
    THEN Returned(fromEntryFused(l.vs, findCrossVaultEntry(l.vs[v].exposure, tok), tok),
                  v, tok, findCrossVaultEntry(l.vs[v].exposure, tok))
  ELSE [vs |-> l.vs,
        out |-> Outcome("resolve", v, tok, "err", NoVault,
                        Err("RelicNotFound", <<>>, tok))]

\* vault.resolve(token) on the container v: the cached entry if it holds an
\* instance, the local entry, the fused containers. val is the container
\* whose entry gave the value, inst the serial number of the instance.
resolveFused(vs, v, tok) ==
  IF vs[v].cache[tok] # NoVault /\ vs[vs[v].cache[tok]].instance[tok] # NoInstance
    THEN Returned(vs, v, tok, vs[v].cache[tok])
  ELSE IF tok \in registry[v].relics
    THEN Returned(fromEntryFused(vs, v, tok), v, tok, v)
  ELSE CrossVault(resolveLazyAttachments(vs, v), v, tok)

\* Vault.clear() on the container v: the instance of every entry of its own
\* store and its cache are dropped.
clear(vs, v) ==
  [vs EXCEPT ![v].instance = [t \in FTokens |-> NoInstance],
             ![v].cache = [t \in FTokens |-> NoVault],
             ![v].clears = @ + 1,
             ![v].stale = vs[v].seen]

\* The exposure part of _canResolveInternal.
Exposed(l, v, tok) ==
  IF l.err.type # "none"
    THEN [vs |-> l.vs, out |-> Outcome("canResolve", v, tok, "err", NoVault, l.err)]
    ELSE [vs |-> l.vs,
          out |-> Outcome("canResolve", v, tok,
                          IF \/ l.vs[v].exposure.aether[tok] # NoVault
                             \/ l.vs[v].exposure.revealed[tok] # NoVault
                            THEN "ok" ELSE "no",
                          findCrossVaultEntry(l.vs[v].exposure, tok), NoError)]

\* vault.canResolve(token): status is "ok" for true and "no" for false.
canResolve(vs, v, tok) ==
  IF tok \in registry[v].relics
    THEN [vs |-> vs, out |-> Outcome("canResolve", v, tok, "ok", v, NoError)]
    ELSE Exposed(resolveLazyAttachments(vs, v), v, tok)

\* _computeShadowIncoming: the names of the vaults other than this one that
\* the two exposure maps hold for a token, the aether map first.
computeShadowIncoming(ex, v, tok) ==
  (IF ex.aether[tok] \notin {NoVault, v} THEN <<ex.aether[tok]>> ELSE <<>>)
  \o (IF ex.revealed[tok] \notin {NoVault, v} THEN <<ex.revealed[tok]>> ELSE <<>>)

\* _collectShadowViolations: one record per local token with incoming
\* producers; the producer names are deduplicated.
collectShadowViolations(ex, v) ==
  {[token |-> t, producers |-> SeqToSet(computeShadowIncoming(ex, v, t))] :
     t \in {u \in registry[v].relics : computeShadowIncoming(ex, v, u) # <<>>}}

\* _enforceShadowPolicy of the container v.
enforceShadowPolicy(vs, v) ==
  LET violations == collectShadowViolations(vs[v].exposure, v)
  IN IF registry[v].shadowPolicy = "allow" \/ violations = {}
       THEN Outcome("shadow", v, "", "ok", NoVault, NoError)
     ELSE IF registry[v].shadowPolicy = "warn"
       THEN [Outcome("shadow", v, "", "ok", NoVault, NoError) EXCEPT
               !.violations = violations]
     ELSE [Outcome("shadow", v, "", "err", NoVault,
                   Err("MultipleShadowPolicyViolations", <<>>, "")) EXCEPT
             !.violations = violations]

\* The variables of the single container of the other specifications.
singleVars == <<phase, relics, ctorError, store, cache, scopes, heap, invoked,
                flaky, calls, stacks, frames, epoch>>

\* new Vault(config) with the configuration registered for v; every fused
\* Vault instance of the configuration exists already.
NewFusedVault(v) ==
  /\ v \in VaultIds
  /\ ~vaults[v].built
  /\ \A i \in 1..Len(registry[v].fuse) :
       registry[v].fuse[i].kind = "built" => vaults[registry[v].fuse[i].v].built
  /\ vaults' = ConstructVault(vaults, v)
  /\ outcome' = Outcome("new", v, "", "ok", NoVault, NoError)
  /\ UNCHANGED <<registry, singleVars, disposalVars>>

\* The Vault instances in the configurations of the deferred classes of v
\* exist, so that the lazy resolver can construct the classes.
LazyReady(v) ==
  \A i \in 1..Len(vaults[v].lazyAttachmentClasses) :
    \A b \in SeqToSet(ItemsOfKind(registry[vaults[v].lazyAttachmentClasses[i]].fuse,
                                  "built")) : vaults[b].built

\* The fused list of v has room for its deferred classes once more: a failed
\* materialization leaves what it pushed, so that retries make the list grow.
CanAttach(v) ==
  IF vaults[v].lazyAttachmentsResolved THEN TRUE
  ELSE Len(vaults[v].fusedVaults) + Len(vaults[v].lazyAttachmentClasses) <= MaxAttach

\* vault.resolve(token) on the container v.
ResolveFused(v, tok) ==
  /\ v \in VaultIds
  /\ vaults[v].built
  /\ LazyReady(v)
  /\ CanAttach(v)
  /\ vaults' = resolveFused(vaults, v, tok).vs
  /\ outcome' = resolveFused(vaults, v, tok).out
  /\ UNCHANGED <<registry, singleVars, disposalVars>>

\* vault.clear() on the container v.
ClearFused(v) ==
  /\ v \in VaultIds
  /\ vaults[v].built
  /\ vaults[v].clears < MaxEpoch
  /\ vaults' = clear(vaults, v)
  /\ outcome' = Outcome("clear", v, "", "ok", NoVault, NoError)
  /\ UNCHANGED <<registry, singleVars, disposalVars>>

\* ExposureIndex.clear(): both maps, the traversal state and the computed
\* flag are reset; the version stays.
clearExposure(ex) ==
  [NewExposure EXCEPT !.version = ex.version]

\* vault.exposure.compute(vault) on the container v: val is the stamp it
\* returns, status tells whether it returned early.
ComputeExposure(v) ==
  /\ v \in VaultIds
  /\ vaults[v].built
  /\ vaults' = [vaults EXCEPT ![v].exposure = compute(@, v, vaults)]
  /\ outcome' = Outcome("compute", v, "",
                        IF vaults[v].exposure.computed THEN "cached" ELSE "computed",
                        compute(vaults[v].exposure, v, vaults).version, NoError)
  /\ UNCHANGED <<registry, singleVars, disposalVars>>

\* vault.exposure.clear() on the container v.
ClearExposure(v) ==
  /\ v \in VaultIds
  /\ vaults[v].built
  /\ vaults[v].exposure.version <= MaxEpoch
  /\ vaults' = [vaults EXCEPT ![v].exposure = clearExposure(@)]
  /\ outcome' = Outcome("clearExposure", v, "", "ok", NoVault, NoError)
  /\ UNCHANGED <<registry, singleVars, disposalVars>>

\* vault.canResolve(token) on the container v.
CanResolve(v, tok) ==
  /\ v \in VaultIds
  /\ vaults[v].built
  /\ LazyReady(v)
  /\ CanAttach(v)
  /\ vaults' = canResolve(vaults, v, tok).vs
  /\ outcome' = canResolve(vaults, v, tok).out
  /\ UNCHANGED <<registry, singleVars, disposalVars>>

\* resolveLazyAttachments() followed by _enforceShadowPolicy() on the
\* container v, both reached through a cast.
EnforceShadowPolicy(v) ==
  /\ v \in VaultIds
  /\ vaults[v].built
  /\ LazyReady(v)
  /\ CanAttach(v)
  /\ LET l == resolveLazyAttachments(vaults, v)
     IN /\ vaults' = l.vs
        /\ outcome' = IF l.err.type # "none"
                        THEN Outcome("shadow", v, "", "err", NoVault, l.err)
                        ELSE enforceShadowPolicy(l.vs, v)
  /\ UNCHANGED <<registry, singleVars, disposalVars>>


(***************************************************************************)
(* Scope operations. The result of an operation of a scope that is not a   *)
(* resolution is kept in outcome, with the scope in the place of the       *)
(* container.                                                              *)
(***************************************************************************)
\* The error of new ScopeDisposedError().
ScopeDisposedError == Err("ScopeDisposed", <<>>, "")

\* Scope.provide(token, value, isOverride) past its disposed check: an
\* override takes the disposer tracked for the token out of the disposer
\* set; the value becomes the scope-local entry; a value with dispose() or
\* close() gets a disposer, tracked under the token.
provide(sc, tok, v, isOverride, kinds) ==
  LET old == sc.tokenDisposers[tok]
      removed == IF isOverride /\ old # NoDisposer
                   THEN [sc EXCEPT !.disposers = SelectSeq(@, LAMBDA d : d.id # old),
                                   !.tokenDisposers[tok] = NoDisposer]
                   ELSE sc
      entered == [removed EXCEPT
                    !.local[tok] = v,
                    !.last[tok] = IF isOverride THEN "override" ELSE "provide"]
  IN IF KindOf(kinds, ValueName(v)) # "none"
       THEN [AddDisposer(entered, tok, v, "provide") EXCEPT
               !.tokenDisposers[tok] = entered.regs + 1]
       ELSE entered

\* scope.provide(token, value, isOverride) as its caller sees it.
ProvideCall(op, scope, tok, v) ==
  /\ phase = "sealed"
  /\ IF KindOf(disposers, ValueName(v)) # "none"
       THEN scopes[scope].regs < MaxRegs ELSE TRUE
  /\ IF scopes[scope].disposed
       THEN /\ outcome' = Outcome(op, scope, tok, "err", Undefined, ScopeDisposedError)
            /\ UNCHANGED scopes
       ELSE /\ scopes' = [scopes EXCEPT
                 ![scope] = provide(@, tok, v, op = "override", disposers)]
            /\ outcome' = Outcome(op, scope, tok, "ok", v, NoError)
  /\ UNCHANGED <<phase, relics, ctorError, store, cache, heap, invoked, flaky,
                 calls, stacks, frames, epoch, registry, vaults>>
  /\ UNCHANGED disposalVars

\* scope.provide(token, value).
Provide(scope, tok, v) == ProvideCall("provide", scope, tok, v)

\* scope.override(token, value): provide(token, value, true).
Override(scope, tok, v) == ProvideCall("override", scope, tok, v)

\* scope.registerDisposer(fn), fn being dispose() / close() of the value v.
RegisterDisposer(scope, v) ==
  /\ phase = "sealed"
  /\ scopes[scope].regs < MaxRegs
  /\ IF scopes[scope].disposed
       THEN /\ outcome' = Outcome("registerDisposer", scope, "", "err", Undefined,
                                  ScopeDisposedError)
            /\ UNCHANGED scopes
       ELSE /\ scopes' = [scopes EXCEPT ![scope] = AddDisposer(@, "", v, "manual")]
            /\ outcome' = Outcome("registerDisposer", scope, "", "ok", v, NoError)
  /\ UNCHANGED <<phase, relics, ctorError, store, cache, heap, invoked, flaky,
                 calls, stacks, frames, epoch, registry, vaults>>
  /\ UNCHANGED disposalVars

\* A read of scope.cache: the getter throws once the scope is disposed.
CacheAccess(scope) ==
  /\ phase = "sealed"
  /\ outcome' = IF scopes[scope].disposed
                  THEN Outcome("cache", scope, "", "err", Undefined, ScopeDisposedError)
                  ELSE Outcome("cache", scope, "", "ok", Undefined, NoError)
  /\ UNCHANGED <<registry, vaults, singleVars, disposalVars>>

\* What the disposer d does when called.
DisposerKind(kinds, d) ==
  IF d.src = "scoped" THEN KindOf(kinds, d.tok)
  ELSE KindOf(kinds, ValueName(d.val))

\* The end of dispose() / disposeSync(): cache.clear(), disposers = undefined.
FinishDispose(sc) ==
  [sc EXCEPT !.cache = [t \in Tokens |-> Undefined], !.disposers = <<>>,
             !.pc = "done"]

\* The loop of dispose() (awaits) and disposeSync() (not awaits) over the
\* disposers still to be iterated: each is called; a throw leaves the loop
\* and the function; dispose() suspends on a returned promise.
RECURSIVE RunDisposers(_, _, _)
RunDisposers(a, scope, awaits) ==
  IF a.sc.rest = <<>> THEN [a EXCEPT !.sc = FinishDispose(@)]
  ELSE LET d == Head(a.sc.rest)
           kind == DisposerKind(disposers, d)
           run == [tok |-> d.tok, val |-> d.val, kind |-> kind, call |-> 0,
                   settled |-> kind \notin AsyncKinds, scope |-> scope,
                   id |-> d.id, src |-> d.src]
           a1 == [a EXCEPT !.runs = Append(@, run), !.sc.rest = Tail(@)]
       IN IF kind = "throw" THEN [a1 EXCEPT !.sc.pc = "threw"]
          ELSE IF awaits /\ kind \in AsyncKinds
            THEN [a1 EXCEPT !.sc.pc = "awaiting", !.sc.wait = Len(a1.runs)]
          ELSE RunDisposers(a1, scope, awaits)

\* dispose() / disposeSync() of a scope, up to its return, its throw or its
\* first await. A disposed scope returns at once.
DisposeCall(op, scope) ==
  /\ phase = "sealed"
  /\ scopes[scope].dcount < MaxDispose
  /\ IF scopes[scope].disposed
       THEN /\ scopes' = [scopes EXCEPT ![scope].dcount = @ + 1]
            /\ outcome' = Outcome(op, scope, "", "ok", Undefined, NoError)
            /\ UNCHANGED runs
       ELSE LET a == RunDisposers(
                       [sc |-> [scopes[scope] EXCEPT
                                  !.disposed = TRUE, !.dcount = @ + 1,
                                  !.rest = scopes[scope].disposers,
                                  !.atDispose = scopes[scope].disposers],
                        runs |-> runs], scope, op = "dispose")
            IN /\ scopes' = [scopes EXCEPT ![scope] = a.sc]
               /\ runs' = a.runs
               /\ outcome' = Outcome(op, scope, "", a.sc.pc, Undefined, NoError)
  /\ UNCHANGED <<phase, relics, ctorError, store, cache, heap, invoked, flaky,
                 calls, stacks, frames, epoch, registry, vaults, disposed,
                 disposers, dcalls>>

\* await scope.dispose().
ScopeDispose(scope) == DisposeCall("dispose", scope)

\* scope.disposeSync().
ScopeDisposeSync(scope) == DisposeCall("disposeSync", scope)

\* dispose() runs on from `await res`: a rejection leaves the function.
ResumeDispose(scope) ==
  /\ scopes[scope].pc = "awaiting"
  /\ runs[scopes[scope].wait].settled
  /\ LET a == IF runs[scopes[scope].wait].kind = "reject"
                THEN [sc |-> [scopes[scope] EXCEPT !.pc = "threw"], runs |-> runs]
                ELSE RunDisposers([sc |-> scopes[scope], runs |-> runs], scope, TRUE)
     IN /\ scopes' = [scopes EXCEPT ![scope] = a.sc]
        /\ runs' = a.runs
  /\ UNCHANGED <<phase, relics, ctorError, store, cache, heap, invoked, flaky,
                 calls, stacks, frames, epoch, disposed, disposers, dcalls>>
  /\ UNCHANGED fusionVars

\* Scope.has(token): false on a disposed scope, true for a scope-local value,
\* else vault.canResolve(token).
has(scope, tok) ==
  IF scopes[scope].disposed THEN FALSE
  ELSE IF scopes[scope].local[tok] # Undefined THEN TRUE
  ELSE store[tok].reg

\* scope.tryResolve(token) on the scope createScope() returned: undefined
\* from a disposed scope and for a token has() denies, else this.resolve(token),
\* which createScope() bound to vault.resolve(token, {scope}).
TryResolve(scope, tok) ==
  /\ phase = "sealed"
  /\ Len(calls) < MaxCalls
  /\ IF scopes[scope].disposed \/ ~has(scope, tok)
       THEN /\ calls' = Append(calls, [NewCall("try", tok, scope, FALSE) EXCEPT
                                         !.status = "absent"])
            /\ UNCHANGED <<store, cache, scopes, heap, invoked, flaky>>
       ELSE LET r == Resolve(World, tok, scope)
            IN /\ InstallWorld(r.w)
               /\ calls' = Append(calls, [SyncCall(r, tok, scope) EXCEPT !.kind = "try"])
  /\ stacks' = Append(stacks, <<>>)
  /\ UNCHANGED <<phase, relics, ctorError, frames, epoch>>
  /\ UNCHANGED disposalVars
  /\ UNCHANGED fusionVars


(***************************************************************************)
(* Concurrent resolveAsync calls on singletons: A is a singleton built by  *)
(* a promise-returning factory from the singleton B; the factory of A may  *)
(* throw once.                                                             *)
(***************************************************************************)
AsyncProviders ==
  << Provider("B", "singleton", "class", <<>>, Undefined),
     Provider("A", "singleton", "afactory", <<"B">>, Undefined) >>

InitAsync ==
  \E fl \in 0..1 :
    Constructed(AsyncProviders, [t \in Tokens |-> IF t = "A" THEN fl ELSE 0])

NextAsync ==
  \/ \E sg \in BOOLEAN : ResolveAsyncCall("A", NoScope, sg)
  \/ \E c \in 1..Len(calls) : Abort(c)
  \/ \E f \in 1..Len(frames) : RunFrame(f)

SpecAsync == InitAsync /\ [][NextAsync]_vars

\* The frames of the shared creations of token t, and the root frame of call c.
SharedCreations(t) ==
  {f \in 1..Len(frames) : frames[f].kind = "inst" /\ frames[f].shared /\ frames[f].tok = t}
RootFrames ==
  {f \in 1..Len(frames) : frames[f].kind = "res" /\ frames[f].parent = 0}
\* The instances of token t built so far.
Built(t) == {i \in 1..Len(heap) : heap[i].tok = t}
\* The shared creation a resolution frame has waited on (0 when none).
AwaitedCreation(f) ==
  IF frames[f].wait # 0 /\ frames[frames[f].wait].shared THEN frames[f].wait ELSE 0

\* C1: however many resolveAsync calls for one unmaterialized singleton are
\* in flight, at most one creation of it is relics or succeeded, the factory
\* ran once per creation at most, one instance at most was built, and every
\* caller that got a value got that instance; a caller is rejected only when
\* it was cancelled or the creation it waited on failed.
C1_SingleCreation ==
  /\ \A t \in Tokens :
       /\ Cardinality({f \in SharedCreations(t) : frames[f].pc # "err"}) <= 1
       /\ invoked[t] <= Cardinality(SharedCreations(t))
       /\ Cardinality(Built(t)) <= 1
  /\ \A c \in 1..Len(calls) :
       /\ calls[c].status = "ok" =>
            /\ calls[c].val \in Built(calls[c].tok)
            /\ calls[c].val = store[calls[c].tok].instance
       /\ calls[c].status = "err" =>
            \/ calls[c].aborted
            \/ \E f \in SharedCreations(calls[c].tok) : frames[f].pc = "err"

\* C1 witness: two callers waited on the same creation of A and both got the
\* one instance.
C1_Witness ==
  \E f1, f2 \in RootFrames :
    /\ f1 # f2
    /\ frames[f1].pc = "ok" /\ frames[f2].pc = "ok"
    /\ AwaitedCreation(f1) # 0 /\ AwaitedCreation(f1) = AwaitedCreation(f2)
    /\ frames[f1].val = frames[f2].val
    /\ invoked["A"] = 1

\* C2: a shared creation and the resolutions it starts carry no signal; only
\* a caller whose own signal was aborted is rejected with the abort; a shared
\* creation fails only because its factory threw; a creation that succeeded
\* has committed its instance and emptied the in-flight slot.
C2_CancelOnlyCaller ==
  /\ \A f \in 1..Len(frames) :
       /\ frames[f].kind = "inst" /\ frames[f].shared =>
            /\ frames[f].sig = 0
            /\ \A i \in 1..Len(frames[f].kids) : frames[frames[f].kids[i]].sig = 0
            /\ frames[f].pc = "err" => frames[f].err.type = "FactoryExecution"
            /\ frames[f].pc = "ok" =>
                 /\ store[frames[f].tok].instance = frames[f].val
                 /\ store[frames[f].tok].promise = 0
                 /\ frames[f].tok \in cache
  /\ Cardinality({f \in SharedCreations("A") : frames[f].pc = "err"}) + flaky["A"] <= 1
  /\ \A c \in 1..Len(calls) :
       /\ calls[c].err.type # "FactoryAborted"
       /\ calls[c].err.type = "Abort" => calls[c].signal /\ calls[c].aborted

\* C2 witness: of two callers waiting on one creation, the cancelled one was
\* rejected with the abort and the other one got the instance.
C2_Witness ==
  \E f1, f2 \in RootFrames :
    /\ AwaitedCreation(f1) # 0 /\ AwaitedCreation(f1) = AwaitedCreation(f2)
    /\ frames[f1].pc = "err" /\ frames[f1].err.type = "Abort"
    /\ calls[frames[f1].call].aborted
    /\ frames[f2].pc = "ok" /\ frames[f2].val = store["A"].instance
    /\ frames[f2].val # Undefined

\* C4, the state part: a caller that waited on a creation that failed is
\* rejected with the creation's error (unless its own abort came first); the
\* in-flight slot only ever holds a relics creation; the committed instance is
\* the value of a creation that succeeded.
C4_FailureState ==
  /\ \A f \in RootFrames :
       AwaitedCreation(f) # 0 /\ frames[AwaitedCreation(f)].pc = "err"
         /\ Settled(frames[f]) /\ ~frames[f].ab =>
           frames[f].pc = "err" /\ frames[f].err = frames[AwaitedCreation(f)].err
  /\ \A t \in Tokens :
       /\ store[t].promise # 0 =>
            store[t].promise \in SharedCreations(t) /\ ~Settled(frames[store[t].promise])
       /\ store[t].instance # Undefined =>
            \E f \in SharedCreations(t) : frames[f].pc = "ok" /\ frames[f].val = store[t].instance
       /\ HasFlag(store[t].flags, FLAG_HAS_INSTANCE) <=> store[t].instance # Undefined

\* C4, the step part: a resolution that reaches the resolver after a creation
\* of its token failed, with nothing in flight, starts a new creation.
C4_RetryStep ==
  \A f \in 1..Len(frames) :
    /\ frames[f].pc = "check" /\ frames'[f].pc = "awaitShared"
    /\ store[frames[f].tok].promise = 0
    /\ \E w \in SharedCreations(frames[f].tok) : frames[w].pc = "err"
    => /\ frames'[f].wait > Len(frames)
       /\ frames'[frames'[f].wait].pc = "queued"
       /\ store'[frames[f].tok].promise = frames'[f].wait

\* C4: when the shared creation fails every caller waiting on it gets the
\* failure, no instance is committed, the in-flight slot is emptied, and the
\* next resolveAsync starts the factory again.
C4_FailureRetry == [](C4_FailureState) /\ [][C4_RetryStep]_vars

\* C4 witness: the first creation of A failed and its caller was rejected, a
\* later caller ran the factory a second time and got the instance.
C4_Witness ==
  \E f1, f2 \in RootFrames :
    /\ AwaitedCreation(f1) # 0 /\ frames[AwaitedCreation(f1)].pc = "err"
    /\ frames[f1].pc = "err" /\ frames[f1].err.type = "FactoryExecution"
    /\ AwaitedCreation(f2) > AwaitedCreation(f1)
    /\ frames[f2].pc = "ok" /\ frames[f2].val = store["A"].instance
    /\ invoked["A"] = 2 /\ store["A"].promise = 0

(***************************************************************************)
(* Synchronous and asynchronous resolutions of the same singletons, with   *)
(* clear(): A is a singleton class that summons the singleton class B.     *)
(***************************************************************************)
MixedProviders ==
  << Provider("B", "singleton", "class", <<>>, Undefined),
     Provider("A", "singleton", "class", <<"B">>, Undefined) >>

InitMixed == Constructed(MixedProviders, [t \in Tokens |-> 0])

NextMixed ==
  \/ \E t \in {"A", "B"} : ResolveCall(t, NoScope)
  \/ ResolveAsyncCall("A", NoScope, FALSE)
  \/ \E f \in 1..Len(frames) : RunFrame(f)
  \/ Clear

SpecMixed == InitMixed /\ [][NextMixed]_vars

\* A call that ran, start to end, within one stretch without clear().
InEpoch(c, e) == calls[c].e0 = e /\ calls[c].e1 = e

\* C3: any two successful resolutions of one singleton token with no clear()
\* between them, synchronous or asynchronous and however interleaved, returned
\* the identical instance.
C3_SameInstance ==
  \A c1, c2 \in 1..Len(calls) :
    /\ calls[c1].status = "ok" /\ calls[c2].status = "ok"
    /\ calls[c1].tok = calls[c2].tok
    /\ store[calls[c1].tok].lifecycle = "singleton"
    /\ \E e \in 0..MaxEpoch : InEpoch(c1, e) /\ InEpoch(c2, e)
    => calls[c1].val = calls[c2].val

(***************************************************************************)
(* Scoped resolutions in two scopes: A is a scoped class that summons the  *)
(* singleton class B.                                                      *)
(***************************************************************************)
ScopedProviders ==
  << Provider("B", "singleton", "class", <<>>, Undefined),
     Provider("A", "scoped", "class", <<"B">>, Undefined) >>

InitScoped == Constructed(ScopedProviders, [t \in Tokens |-> 0])

NextScoped ==
  \/ \E s \in Scopes : ResolveCall("A", s)
  \/ \E s \in Scopes : ResolveAsyncCall("A", s, FALSE)
  \/ \E f \in 1..Len(frames) : RunFrame(f)

SpecScoped == InitScoped /\ [][NextScoped]_vars

\* C5: two successful resolutions of one scoped token, synchronous or
\* asynchronous, sequential or concurrent, returned the identical instance
\* exactly when they were made in the same scope.
C5_OnePerScope ==
  \A c1, c2 \in 1..Len(calls) :
    /\ c1 # c2
    /\ calls[c1].status = "ok" /\ calls[c2].status = "ok"
    /\ calls[c1].tok = calls[c2].tok
    /\ store[calls[c1].tok].lifecycle = "scoped"
    => (calls[c1].val = calls[c2].val <=> calls[c1].scope = calls[c2].scope)

(***************************************************************************)
(* Scope-local values: D and A are container singletons, A summons D, and  *)
(* each scope s may provide its own value -s for D.                        *)
(***************************************************************************)
LocalProviders ==
  << Provider("D", "singleton", "class", <<>>, Undefined),
     Provider("A", "singleton", "class", <<"D">>, Undefined) >>

InitLocal == Constructed(LocalProviders, [t \in Tokens |-> 0])

NextLocal ==
  \/ \E s \in Scopes : Provide(s, "D", 0 - s)
  \/ \E t \in {"A", "D"}, s \in {NoScope} \cup Scopes : ResolveCall(t, s)
  \/ \E s \in {NoScope} \cup Scopes : ResolveAsyncCall("D", s, FALSE)
  \/ \E f \in 1..Len(frames) : RunFrame(f)

SpecLocal == InitLocal /\ [][NextLocal]_vars

\* C6: a resolution of a token in a scope that had a value provided for it
\* when the call was made returned that value, and an instance built by a
\* synchronous resolution in a scope holds, for each summoned token the scope
\* had a value for, that value: whatever the container has materialized.
C6_ScopeValueWins ==
  \A c \in 1..Len(calls) :
    calls[c].status = "ok" /\ calls[c].scope # NoScope =>
      /\ calls[c].loc[calls[c].tok] # Undefined => calls[c].val = calls[c].loc[calls[c].tok]
      /\ calls[c].kind = "sync" /\ calls[c].val > calls[c].h0 =>
           \A k \in 1..Len(store[calls[c].tok].summons) :
             calls[c].loc[store[calls[c].tok].summons[k]] # Undefined =>
               heap[calls[c].val].args[k] = calls[c].loc[store[calls[c].tok].summons[k]]

\* The values an instance holds: itself and, for an instance built by the
\* container, what its constructor arguments hold.
RECURSIVE HeldBy(_)
HeldBy(v) ==
  IF v <= 0 THEN {v}
  ELSE {v} \cup UNION {HeldBy(heap[v].args[k]) : k \in 1..Len(heap[v].args)}

\* C7: the value provided in one scope is never returned by, nor held by an
\* instance returned by, a resolution made in another scope or without scope.
C7_ScopesIsolated ==
  \A c \in 1..Len(calls), s \in Scopes :
    /\ calls[c].status = "ok"
    /\ calls[c].scope # s
    /\ scopes[s].local["D"] # Undefined
    => scopes[s].local["D"] \notin HeldBy(calls[c].val)

(***************************************************************************)
(* Dependency cycles among singleton classes: either A -> B -> A, or       *)
(* A -> B -> D -> B (a cycle that does not go through the root).           *)
(***************************************************************************)
CycleProviders(longer) ==
  IF longer
    THEN << Provider("A", "singleton", "class", <<"B">>, Undefined),
            Provider("B", "singleton", "class", <<"D">>, Undefined),
            Provider("D", "singleton", "class", <<"B">>, Undefined) >>
    ELSE << Provider("A", "singleton", "class", <<"B">>, Undefined),
            Provider("B", "singleton", "class", <<"A">>, Undefined) >>

InitCycle == \E longer \in BOOLEAN : Constructed(CycleProviders(longer), [t \in Tokens |-> 0])

NextCycle ==
  \/ \E t \in {"A", "B"} : ResolveCall(t, NoScope)
  \/ \E t \in {"A", "B"} : ResolveAsyncCall(t, NoScope, FALSE)
  \/ \E f \in 1..Len(frames) : RunFrame(f)

SpecCycle == InitCycle /\ [][NextCycle]_vars

\* The dependency chain from a root, following each token's first dependency,
\* up to the first token met twice: the part from that token's first
\* occurrence on, with the token appended.
RECURSIVE ChainCycle(_)
ChainCycle(path) ==
  LET ds == DepsOf(store[path[Len(path)]]) IN
  IF ds = <<>> THEN <<>>
  ELSE IF \E i \in 1..Len(path) : path[i] = ds[1]
    THEN LET i == CHOOSE k \in 1..Len(path) : path[k] = ds[1]
         IN [j \in 1..(Len(path) - i + 2) |->
               IF j = Len(path) - i + 2 THEN ds[1] ELSE path[i + j - 1]]
  ELSE ChainCycle(Append(path, ds[1]))

Described(s) == [i \in 1..Len(s) |-> store[s[i]].label \o " [" \o s[i] \o "]"]

\* The traversal stack from the first occurrence of a token on it to its top,
\* followed by the token.
SliceFromFirst(stk, tok) ==
  LET i == CHOOSE k \in 1..Len(stk) : stk[k] = tok /\ \A j \in 1..(k - 1) : stk[j] # tok
  IN [j \in 1..(Len(stk) - i + 2) |-> IF j = Len(stk) - i + 2 THEN tok ELSE stk[i + j - 1]]

\* Call c is the only asynchronous call made so far.
OnlyAsyncCall(c) == \A f \in 1..Len(frames) : frames[f].call = c

\* C8, the state part: the payload of a cycle error begins and ends with the
\* re-entered token, never has it in between, and is the cycle of the chain of
\* some registered token; a synchronous resolution, and an asynchronous one
\* running on its own, reports the cycle of its own chain, so A -> B -> A asked
\* for A reports exactly [A, B, A].
C8_PayloadState ==
  \A c \in 1..Len(calls) :
    calls[c].err.type = "CircularDependency" =>
      LET p == calls[c].err.payload IN
      /\ Len(p) >= 2
      /\ p[1] = p[Len(p)]
      /\ p[1] = Described(<<calls[c].err.tok>>)[1]
      /\ \A i \in 2..(Len(p) - 1) : p[i] # p[1]
      /\ \E r \in {"A", "B", "D"} : store[r].reg /\ p = Described(ChainCycle(<<r>>))
      /\ calls[c].kind = "sync" \/ OnlyAsyncCall(c) =>
           p = Described(ChainCycle(<<calls[c].tok>>))
      /\ calls[c].tok = "A" /\ store["B"].summons = <<"A">>
           /\ (calls[c].kind = "sync" \/ OnlyAsyncCall(c)) =>
           p = <<"LA [A]", "LB [B]", "LA [A]">>

\* C8, the step part: an asynchronous resolution that reaches the resolver
\* fails with the cycle error exactly when its token is on the traversal
\* stack, and the payload is the described stack from the token's first
\* occurrence to the top followed by the token.
C8_DetectStep ==
  \A f \in 1..Len(frames) :
    /\ frames[f].kind = "res" /\ frames[f].pc = "check" /\ frames[f].pre = "miss"
    /\ frames'[f].pc # "check"
    => LET stk == stacks[frames[f].call]
           tok == frames[f].tok
       IN /\ (frames'[f].pc = "err" /\ frames'[f].err.type = "CircularDependency")
               <=> (\E i \in 1..Len(stk) : stk[i] = tok)
          /\ (\E i \in 1..Len(stk) : stk[i] = tok) =>
               /\ frames'[f].err.payload = Described(SliceFromFirst(stk, tok))
               /\ stacks' = stacks

RegConfigs ==
  {<<Provider("A", la, "class", <<"T">>, Undefined), Provider("T", lt, "class", <<>>, Undefined)>> :
     la \in Lifecycles, lt \in Lifecycles}
  \cup
  {<<Provider("T", lt, "class", <<>>, Undefined), Provider("A", la, "class", <<"T">>, Undefined)>> :
     la \in Lifecycles, lt \in Lifecycles}

InitReg ==
  /\ phase = "new"
  /\ NotDisposed(NoDisposers)
  /\ NoFusion
  /\ relics = <<>>
  /\ ctorError = NoError
  /\ store = EmptyStore
  /\ cache = {}
  /\ scopes = [s \in Scopes |-> NoScopeState]
  /\ heap = <<>>
  /\ invoked = [t \in Tokens |-> 0]
  /\ flaky = [t \in Tokens |-> 0]
  /\ calls = <<>>
  /\ stacks = <<>>
  /\ frames = <<>>
  /\ epoch = 0

NextReg ==
  \/ \E ps \in RegConfigs : NewVault(ps)
  \/ \E t \in {"A", "T"}, s \in {NoScope, 1} : ResolveCall(t, s)
  \/ \E s \in {NoScope, 1} : ResolveAsyncCall("A", s, FALSE)
  \/ \E f \in 1..Len(frames) : RunFrame(f)

SpecReg == InitReg /\ [][NextReg]_vars

\* The relics given to the constructor break a lifecycle rule: one of them
\* depends on another one whose lifecycle it may not depend on.
BreaksLifecycleRule(ps) ==
  \E i, j \in 1..Len(ps) :
    /\ ps[j].tok \in SeqToSet(ps[i].deps)
    /\ \/ ps[i].lifecycle = "singleton" /\ ps[j].lifecycle \in {"scoped", "transient"}
       \/ ps[i].lifecycle = "scoped" /\ ps[j].lifecycle = "transient"

\* C9: constructing a container whose relics have a singleton depending on a
\* transient or scoped relic, or a scoped one depending on a transient relic,
\* fails with a lifecycle violation, in whatever order the relics are given,
\* and nothing is ever resolved from it.
C9_EagerLifecycleCheck ==
  phase # "new" /\ BreaksLifecycleRule(relics) =>
    /\ phase = "failed"
    /\ ctorError.type = "LifecycleViolation"
    /\ calls = <<>>

\* C10: whatever the registration order, no singleton holds an instance while
\* one of its dependencies is registered in the container as scoped or
\* transient.
C10_NoCaptiveDependency ==
  \A t \in Tokens :
    /\ store[t].reg /\ store[t].lifecycle = "singleton"
    /\ store[t].instance # Undefined
    => \A k \in 1..Len(DepsOf(store[t])) :
         store[DepsOf(store[t])[k]].reg =>
           store[DepsOf(store[t])[k]].lifecycle = "singleton"

(***************************************************************************)
(* Disposal: B and A are singletons without dependencies whose instances   *)
(* carry a disposer of any kind; calls, disposals and the event loop       *)
(* interleave freely.                                                      *)
(***************************************************************************)
DisposeProviders ==
  << Provider("B", "singleton", "class", <<>>, Undefined),
     Provider("A", "singleton", "class", <<>>, Undefined) >>

InitDispose ==
  \E ka \in DisposerKinds, kb \in DisposerKinds \ {"none"} :
    ConstructedWith(DisposeProviders, [t \in Tokens |-> 0],
                    [t \in Tokens |-> IF t = "A" THEN ka
                                      ELSE IF t = "B" THEN kb ELSE "none"])

NextDispose ==
  \/ \E t \in {"A", "B"} : ResolveCall(t, NoScope)
  \/ ResolveAsyncCall("A", NoScope, FALSE)
  \/ \E f \in 1..Len(frames) : RunFrame(f)
  \/ Dispose
  \/ \E r \in 1..Len(runs) : SettleDisposer(r)
  \/ \E d \in 1..Len(dcalls) : AllSettled(d)

SpecDispose == InitDispose /\ [][NextDispose]_vars

\* The disposer invocations made on the instance v.
RunsOn(v) == {r \in 1..Len(runs) : runs[r].val = v}

\* The number of entries of the sequence errors that stand for the run r.
Entries(errors, r) == Cardinality({i \in 1..Len(errors) : errors[i] = r})

\* The disposer of run r failed: it threw or its promise rejected.
FailedRun(r) == runs[r].kind \in {"throw", "reject"}

\* C11: dispose() invokes the disposer of every materialized disposable
\* instance exactly once, whatever the other disposers do, and the error of
\* a finished dispose() holds exactly one entry per disposer of that call
\* that threw or rejected (and dispose() fails exactly when there is one).
C11_DisposeAllReportAll ==
  \A d \in 1..Len(dcalls) :
    /\ \A v \in dcalls[d].held :
         /\ Cardinality(RunsOn(v)) = 1
         /\ \A r \in RunsOn(v) : runs[r].call = d
    /\ dcalls[d].status # "pending" =>
         /\ \A r \in 1..Len(runs) :
              Entries(dcalls[d].errors, r) =
                IF runs[r].call = d /\ FailedRun(r) THEN 1 ELSE 0
         /\ dcalls[d].status = "err" <=>
              \E r \in 1..Len(runs) : runs[r].call = d /\ FailedRun(r)

\* C12: Vault.disposed is true only when every disposal attempt started by a
\* dispose() call, synchronous or asynchronous, has completed.
C12_DisposedAfterAttempts ==
  disposed => \A r \in 1..Len(runs) : runs[r].settled

\* Some dispose() call has completed.
DisposeCompleted == \E d \in 1..Len(dcalls) : dcalls[d].status # "pending"

\* C13: once a dispose() has completed no entry holds an instance, the
\* has-instance flag or an in-flight promise, whatever was in flight when
\* dispose() was called (every resolution here was requested before the
\* first dispose() call).
C13_NothingHeldAfterDispose ==
  /\ DisposeCompleted
  /\ \A c \in 1..Len(calls) : calls[c].d0 = 0
  => \A t \in Tokens :
       /\ store[t].instance = Undefined
       /\ ~HasFlag(store[t].flags, FLAG_HAS_INSTANCE)
       /\ store[t].promise = 0

\* C14: a resolve() or resolveAsync() made when the vault is disposed fails
\* with the vault-disposed error.
C14_ResolveAfterDisposeFails ==
  \A c \in 1..Len(calls) :
    calls[c].dis =>
      /\ calls[c].status # "ok"
      /\ calls[c].status = "err" => calls[c].err.type = "VaultDisposed"

(***************************************************************************)
(* The life of a scope: A is a container singleton, D a scoped class whose *)
(* instances have a dispose() method, T is registered nowhere. The scope   *)
(* is handed the values -1, -2 and -3 for T: -1 and -2 have a dispose()    *)
(* method, -3 has none. The function handed to registerDisposer is the     *)
(* dispose() of -1.                                                        *)
(***************************************************************************)
ScopeProviders ==
  << Provider("A", "singleton", "class", <<>>, Undefined),
     Provider("D", "scoped", "class", <<>>, Undefined) >>

ScopeValues == {-1, -2, -3}

ScopeKinds(k1) ==
  [key \in Tokens \cup {ValueName(v) : v \in ScopeValues} |->
     CASE key = "D" -> "void"
       [] key = ValueName(-1) -> k1
       [] key = ValueName(-2) -> "void"
       [] OTHER -> "none"]

\* The disposers of a scope: what the first disposer of -1 does varies.
InitScopeLife ==
  \E k1 \in DisposerKinds \ {"none"} :
    ConstructedWith(ScopeProviders, [t \in Tokens |-> 0], ScopeKinds(k1))

NextScopeLife ==
  \/ \E v \in ScopeValues : Provide(1, "T", v)
  \/ \E v \in ScopeValues : Override(1, "T", v)
  \/ RegisterDisposer(1, -1)
  \/ ResolveCall("D", 1)
  \/ ScopeDispose(1)
  \/ ScopeDisposeSync(1)
  \/ ResumeDispose(1)
  \/ \E r \in 1..Len(runs) : SettleDisposer(r)

SpecScopeLife == InitScopeLife /\ [][NextScopeLife]_vars

\* The disposers in the disposer set of scope s that provide() made for a
\* value of token t, and the invocations of such disposers.
ProvidedDisposers(s, t) ==
  {i \in 1..Len(scopes[s].disposers) :
     scopes[s].disposers[i].src = "provide" /\ scopes[s].disposers[i].tok = t}
ProvidedRuns(s, t) ==
  {r \in 1..Len(runs) :
     runs[r].scope = s /\ runs[r].src = "provide" /\ runs[r].tok = t}

\* C21: when the last local registration of token T in a scope was
\* override(T, v), whatever provide and override calls on T came before, the
\* only cleanup registered for a value of T is the one of v, and a disposal
\* of the scope that ran to its end has invoked the disposer of v exactly
\* once and the disposer of no value v replaced.
C21_OverrideReplacesCleanup ==
  \A s \in Scopes, t \in Tokens :
    scopes[s].last[t] = "override" =>
      /\ ~scopes[s].disposed =>
           \A i \in ProvidedDisposers(s, t) :
             /\ scopes[s].disposers[i].id = scopes[s].tokenDisposers[t]
             /\ scopes[s].disposers[i].val = scopes[s].local[t]
      /\ scopes[s].pc = "done" =>
           /\ \A r \in ProvidedRuns(s, t) : runs[r].val = scopes[s].local[t]
           /\ Cardinality(ProvidedRuns(s, t)) =
                IF KindOf(disposers, ValueName(scopes[s].local[t])) # "none"
                  THEN 1 ELSE 0

\* The invocations of the disposer numbered id of scope s.
RunsOf(s, id) == {r \in 1..Len(runs) : runs[r].scope = s /\ runs[r].id = id}

\* C22: no disposer of a scope is ever invoked twice, however many dispose()
\* and disposeSync() calls are made; and once the first of these calls has
\* ended, by returning, throwing or rejecting, every disposer registered when
\* it began has been invoked exactly once, the scope's cache is empty and its
\* disposer set is dropped.
C22_DisposeOnceAndComplete ==
  \A s \in Scopes :
    /\ \A r1, r2 \in 1..Len(runs) :
         runs[r1].scope = s /\ runs[r2].scope = s /\ runs[r1].id = runs[r2].id
           => r1 = r2
    /\ scopes[s].pc \in {"done", "threw"} =>
         /\ \A i \in 1..Len(scopes[s].atDispose) :
              Cardinality(RunsOf(s, scopes[s].atDispose[i].id)) = 1
         /\ \A t \in Tokens : scopes[s].cache[t] = Undefined
         /\ scopes[s].disposers = <<>>

\* The uses of a scope before and after its disposal.
InitScopeUse == ConstructedWith(ScopeProviders, [t \in Tokens |-> 0], ScopeKinds("void"))

NextScopeUse ==
  \/ Provide(1, "T", -3)
  \/ Override(1, "T", -3)
  \/ RegisterDisposer(1, -1)
  \/ CacheAccess(1)
  \/ \E t \in {"A", "D", "T"} : ResolveCall(t, 1)
  \/ ResolveAsyncCall("D", 1, FALSE)
  \/ \E f \in 1..Len(frames) : RunFrame(f)
  \/ \E t \in {"A", "B", "T"} : TryResolve(1, t)
  \/ ScopeDispose(1)
  \/ ScopeDisposeSync(1)

SpecScopeUse == InitScopeUse /\ [][NextScopeUse]_vars

\* The operations of a scope whose result is kept in outcome.
ScopeOps == {"provide", "override", "registerDisposer", "cache"}

\* C23: a use of a disposed scope fails with the scope-disposed error: a read
\* of its cache, registerDisposer, provide and override, and, for every token,
\* a resolve or resolveAsync call made with it, which is what the resolve and
\* resolveAsync of the object returned by createScope() are.
C23_DisposedScopeRejectsUse ==
  /\ IF outcome.op \in ScopeOps
       THEN scopes[outcome.v].disposed =>
              outcome.status = "err" /\ outcome.err.type = "ScopeDisposed"
       ELSE TRUE
  /\ \A c \in 1..Len(calls) :
       calls[c].kind \in {"sync", "async"} /\ calls[c].sd =>
         /\ calls[c].status # "ok"
         /\ calls[c].status = "err" => calls[c].err.type = "ScopeDisposed"

\* C24: tryResolve returned undefined only for a token that was neither
\* provided in the scope nor registered in the owning container; on a
\* disposed scope, as on a live one, a registered token never yields
\* undefined.
C24_AbsentOnlyWhenUnregistered ==
  \A c \in 1..Len(calls) :
    calls[c].kind = "try" /\ calls[c].status = "absent" =>
      /\ calls[c].loc[calls[c].tok] = Undefined
      /\ ~store[calls[c].tok].reg

(***************************************************************************)
(* Fusion graphs: Core (1) registers A and B and reveals A, Dup (2) also   *)
(* registers and reveals A, Mid (3) fuses Core, and Host (4) fuses some of *)
(* them, as built containers or as deferred classes, and may register A    *)
(* itself.                                                                 *)
(***************************************************************************)
HostFuses ==
  { <<BuiltRef(1), BuiltRef(2)>>, <<BuiltRef(2), BuiltRef(1)>>,
    <<BuiltRef(3)>>, <<ClassRef(3)>>, <<BuiltRef(3), BuiltRef(2)>>,
    <<BuiltRef(2), ClassRef(1)>>, <<ClassRef(1), ClassRef(2)>> }

\* Host registers nothing, or registers A and may reveal it.
HostConfigs ==
  {Config(FALSE, {}, {}, hf, "error") : hf \in HostFuses}
  \cup {Config(FALSE, {"A"}, shown, hf, policy) :
          shown \in {{}, {"A"}}, hf \in HostFuses,
          policy \in {"error", "warn", "allow"}}

FusionRegistries ==
  { [v \in VaultIds |->
       CASE v = 1 -> Config(a1, {"A", "B"}, {"A"}, <<>>, "error")
         [] v = 2 -> Config(a2, {"A"}, {"A"}, <<>>, "error")
         [] v = 3 -> Config(FALSE, {}, {}, <<m>>, "error")
         [] OTHER -> h] :
     a1 \in BOOLEAN, a2 \in BOOLEAN, m \in {BuiltRef(1), ClassRef(1)},
     h \in HostConfigs }

InitFusion ==
  /\ SingleVault(<<>>, [t \in Tokens |-> 0], NoDisposers)
  /\ registry \in FusionRegistries
  /\ vaults = [v \in VaultIds |-> Unbuilt]
  /\ outcome = [op |-> "none"]

NextFusion ==
  \/ \E v \in VaultIds : NewFusedVault(v)
  \/ \E v \in {3, 4}, t \in FTokens : ResolveFused(v, t)
  \/ \E t \in FTokens : CanResolve(4, t)
  \/ EnforceShadowPolicy(4)
  \/ ClearFused(4)

SpecFusion == InitFusion /\ [][NextFusion]_vars

\* The container p has an entry for tok and reveals it.
Exposes(p, tok) == tok \in registry[p].reveal /\ tok \in registry[p].relics

\* The containers the configuration of h fuses directly, and those it
\* reaches through any chain of fusion edges.
Fuses(h) == {registry[h].fuse[i].v : i \in 1..Len(registry[h].fuse)}
FusesMore(S) == S \cup UNION {Fuses(x) : x \in S}
Descendants(h) == FusesMore(FusesMore(FusesMore(Fuses(h))))

\* The positions in the indexing order of h of the containers exposing tok,
\* and of the aether hosts among them.
IndexedProducers(h, tok) ==
  {i \in 1..Len(vaults[h].exposure.order) :
     Exposes(vaults[h].exposure.order[i], tok)}
IndexedAether(h, tok) ==
  {i \in IndexedProducers(h, tok) : registry[vaults[h].exposure.order[i]].aether}

\* The container indexed first among those at the positions S.
FirstOf(h, S) == vaults[h].exposure.order[CHOOSE i \in S : \A j \in S : i <= j]

\* The last operation was a resolve() answered by a fused container.
ResolvedThroughFusion ==
  /\ outcome.op = "resolve" /\ outcome.status = "ok"
  /\ outcome.val # outcome.v

\* C15 as stated: a token resolved through the host comes from the producer
\* indexed first, aether host or not.
C15_FirstIndexedWins ==
  ResolvedThroughFusion =>
    outcome.val = FirstOf(outcome.v, IndexedProducers(outcome.v, outcome.tok))

\* C15: a token resolved through the host comes from the aether host indexed
\* first among the aether hosts exposing it, and when no aether host exposes
\* it from the plain reveal host indexed first; a later-indexed producer of
\* the same kind never replaces an earlier one.
C15_FirstIndexedOfKindWins ==
  ResolvedThroughFusion =>
    /\ IndexedProducers(outcome.v, outcome.tok) # {}
    /\ outcome.val =
         IF IndexedAether(outcome.v, outcome.tok) # {}
           THEN FirstOf(outcome.v, IndexedAether(outcome.v, outcome.tok))
           ELSE FirstOf(outcome.v, IndexedProducers(outcome.v, outcome.tok))

\* A plain reveal host and, after it, an aether host exposing the same token
\* were indexed, and the host resolved the token from the aether host.
C15_Witness ==
  /\ ResolvedThroughFusion
  /\ Cardinality(IndexedProducers(outcome.v, outcome.tok)) = 2
  /\ Cardinality(IndexedAether(outcome.v, outcome.tok)) = 1
  /\ outcome.val # FirstOf(outcome.v, IndexedProducers(outcome.v, outcome.tok))

\* C16: a container built with shadowPolicy 'error' registers no token that
\* one of the built containers it fuses exposes (its construction would have
\* raised the violation).
C16_ShadowRaisesAtConstruction ==
  \A v \in VaultIds :
    vaults[v].built /\ registry[v].shadowPolicy = "error" =>
      \A t \in registry[v].relics :
        \A p \in SeqToSet(ItemsOfKind(registry[v].fuse, "built")) : ~Exposes(p, t)

\* The fused containers of v that expose the token t.
FusedProducers(v, t) == {p \in SeqToSet(vaults[v].fusedVaults) : Exposes(p, t)}

\* C17: in 'error' mode the shadow-policy check fails exactly when a local
\* token is exposed by a fused container, with one record per such token
\* that lists every fused producer of the token.
C17_AllViolationsAllProducers ==
  /\ outcome.op = "shadow"
  /\ registry[outcome.v].shadowPolicy = "error"
  /\ outcome.err.type # "CircularVaultAttachment"
  => /\ \A t \in registry[outcome.v].relics :
          FusedProducers(outcome.v, t) # {} =>
            /\ outcome.status = "err"
            /\ \E r \in outcome.violations :
                 r.token = t /\ FusedProducers(outcome.v, t) \subseteq r.producers
     /\ \A r \in outcome.violations :
          /\ r.token \in registry[outcome.v].relics
          /\ \A q \in outcome.violations : q.token = r.token => q = r

\* The last operation found its token in a fused container.
FoundThroughFusion ==
  /\ outcome.op \in {"resolve", "canResolve"} /\ outcome.status = "ok"
  /\ outcome.val # outcome.v

\* C18: a token that a container resolves, or reports resolvable, from a
\* non-aether container comes from a container it fuses directly.
C18_RevealNotTransitive ==
  FoundThroughFusion /\ ~registry[outcome.val].aether =>
    outcome.val \in Fuses(outcome.v)

\* The fuse items of the container h are all of one kind.
OneKindOfEdge(h) ==
  \A i, j \in 1..Len(registry[h].fuse) :
    registry[h].fuse[i].kind = registry[h].fuse[j].kind

\* C19: a token revealed by an aether container is resolved by every
\* container that reaches the aether container through fusion edges, built
\* or deferred (here no container mixes the two kinds in its own fuse list).
C19_AetherTransitive ==
  /\ outcome.op = "resolve"
  /\ OneKindOfEdge(outcome.v)
  /\ \E p \in Descendants(outcome.v) :
       registry[p].aether /\ Exposes(p, outcome.tok)
  => outcome.status = "ok"

C25_ClearRenewsSingletons ==
  IF outcome.op = "resolve" /\ outcome.status = "ok"
    THEN <<outcome.val, outcome.inst>> \notin vaults[outcome.v].stale[outcome.tok]
    ELSE TRUE

(***************************************************************************)
(* A value provider: T is registered with useValue, the value being an     *)
(* object (-7 stands for it), and the singleton class A summons T.         *)
(***************************************************************************)
RegisteredValue == -7

ValueProviders ==
  << Provider("T", "singleton", "value", <<>>, RegisteredValue),
     Provider("A", "singleton", "class", <<"T">>, Undefined) >>

InitValue == Constructed(ValueProviders, [t \in Tokens |-> 0])

NextValue ==
  \/ \E t \in {"T", "A"} : ResolveCall(t, NoScope)
  \/ \E t \in {"T", "A"} : ResolveAsyncCall(t, NoScope, FALSE)
  \/ \E f \in 1..Len(frames) : RunFrame(f)
  \/ Clear

SpecValue == InitValue /\ [][NextValue]_vars

\* The providers of the configuration that are value providers.
ValueRelics == {i \in 1..Len(relics) : relics[i].kind = "value"}

\* C26: the entry of a value provider is a singleton without a factory that
\* holds the registered value, in every state, and every successful
\* resolution of its token returned the registered value.
C26_ValueProviderFixed ==
  \A i \in ValueRelics :
    /\ store[relics[i].tok].lifecycle = "singleton"
    /\ store[relics[i].tok].factory = "none"
    /\ store[relics[i].tok].instance = relics[i].value
    /\ HasFlag(store[relics[i].tok].flags, FLAG_HAS_INSTANCE)
    /\ \A c \in 1..Len(calls) :
         calls[c].tok = relics[i].tok /\ calls[c].status = "ok"
           => calls[c].val = relics[i].value

(***************************************************************************)
(* An EntryStore on its own: entries of the tokens A and B, of any         *)
(* lifecycle, are added under an owner name, which may be empty.           *)
(***************************************************************************)
StoreTokens == {"A", "B"}
OwnerNames == {"", "ExistingVault", "NewVault"}

InitStore == InitReg

\* store.add(createEntry(tok), vaultName).
StoreAdd(tok, lifecycle, vaultName) ==
  /\ phase = "new"
  /\ LET r == add(store, EntryOf(Provider(tok, lifecycle, "class", <<>>, Undefined)),
                  tok, vaultName)
     IN /\ store' = r.store
        /\ outcome' = Outcome("add", NoVault, tok,
                              IF r.err.type = "none" THEN "ok" ELSE "err",
                              NoVault, r.err)
  /\ UNCHANGED <<phase, relics, ctorError, cache, scopes, heap, invoked, flaky,
                 calls, stacks, frames, epoch, registry, vaults>>
  /\ UNCHANGED disposalVars

NextStore ==
  \E t \in StoreTokens, l \in Lifecycles, n \in OwnerNames : StoreAdd(t, l, n)

SpecStore == InitStore /\ [][NextStore]_vars

\* C27: an add() for a canonical id the store has an entry for throws the
\* collision error and leaves the entries and their owners as they were, so
\* that the entry of an id and its owner never change.
C27_CollisionRejected ==
  [][store[outcome'.tok].reg =>
       /\ outcome'.status = "err"
       /\ outcome'.err.type = "TokenCollision"
       /\ store' = store]_vars

(***************************************************************************)
(* The exposure index of Mid and Host, computed and cleared by hand over   *)
(* the fusion graphs above.                                                *)
(***************************************************************************)
InitExposure == InitFusion

NextExposure ==
  \/ \E v \in VaultIds : NewFusedVault(v)
  \/ \E t \in FTokens : CanResolve(4, t)
  \/ \E v \in {3, 4} : ComputeExposure(v)
  \/ \E v \in {3, 4} : ClearExposure(v)

SpecExposure == InitExposure /\ [][NextExposure]_vars

\* C28: the version stamp of an exposure index never decreases; a compute()
\* returns the stamp the index has after it; on a computed index it changes
\* nothing, neither map nor stamp; on an index that is not computed, as after
\* each clear(), it raises the stamp by exactly one.
C28_ComputeIdempotent ==
  [][\A v \in VaultIds :
       /\ vaults'[v].exposure.version >= vaults[v].exposure.version
       /\ (outcome'.op = "compute" /\ outcome'.v = v) =>
            /\ outcome'.val = vaults'[v].exposure.version
            /\ vaults[v].exposure.computed =>
                 vaults'[v].exposure = vaults[v].exposure
            /\ ~vaults[v].exposure.computed =>
                 /\ vaults'[v].exposure.computed
                 /\ vaults'[v].exposure.version = vaults[v].exposure.version + 1]_vars

\* A compute() that returned early on the index recomputed after a clear().
C28_Witness ==
  /\ outcome.op = "compute"
  /\ outcome.status = "cached"
  /\ outcome.val = 2
  /\ vaults[outcome.v].exposure.revealed # NewExposure.revealed

(***************************************************************************)
(* Resolutions without a scope: D is a scoped class, B a transient class,  *)
(* and the transient class A summons both, in either order.                *)
(***************************************************************************)
ScopelessProviders(summons) ==
  << Provider("D", "scoped", "class", <<>>, Undefined),
     Provider("B", "transient", "class", <<>>, Undefined),
     Provider("A", "transient", "class", summons, Undefined) >>

InitScopeless ==
  \E summons \in {<<"B", "D">>, <<"D", "B">>, <<"D">>} :
    Constructed(ScopelessProviders(summons), [t \in Tokens |-> 0])

NextScopeless ==
  \/ \E t \in {"A", "B", "D"} : ResolveCall(t, NoScope)
  \/ \E t \in {"A", "D"} : ResolveAsyncCall(t, NoScope, FALSE)
  \/ \E f \in 1..Len(frames) : RunFrame(f)

SpecScopeless == InitScopeless /\ [][NextScopeless]_vars

\* The dependency chains that lead from token t to a scoped token: t itself
\* when it is scoped, else t followed by such a chain of one of its
\* dependencies.
RECURSIVE ScopedChains(_)
ScopedChains(t) ==
  IF store[t].lifecycle = "scoped" THEN {<<t>>}
  ELSE UNION {{<<t>> \o c : c \in ScopedChains(DepsOf(store[t])[i])} :
                i \in 1..Len(DepsOf(store[t]))}

\* C29: a resolve or resolveAsync call without a scope for a token that is
\* scoped, or that reaches a scoped token through its dependencies, does not
\* succeed; when it has failed, the error is the scoped-without-scope error
\* and carries a dependency chain from the token to the scoped one; and no
\* instance of the token or of a scoped token has been built.
C29_ScopedNeedsScope ==
  /\ \A c \in 1..Len(calls) :
       calls[c].scope = NoScope /\ ScopedChains(calls[c].tok) # {} =>
         /\ calls[c].status # "ok"
         /\ calls[c].status = "err" =>
              /\ calls[c].err.type = "ScopedWithoutScope"
              /\ calls[c].err.payload \in
                   {DescribeAll(store, ch) : ch \in ScopedChains(calls[c].tok)}
  /\ \A i \in 1..Len(heap) : ScopedChains(heap[i].tok) = {}

(***************************************************************************)
(* Transient tokens: B is a transient class, and A is transient too, built *)
(* by a constructor or by a factory from B. No constructor throws and no   *)
(* scope is handed a value. The asynchronous calls ask for A, which makes  *)
(* them resolve B as its dependency.                                       *)
(***************************************************************************)
TransientProviders(kind) ==
  << Provider("B", "transient", "class", <<>>, Undefined),
     Provider("A", "transient", kind, <<"B">>, Undefined) >>

InitTransient ==
  \E kind \in {"class", "factory"} :
    Constructed(TransientProviders(kind), [t \in Tokens |-> 0])

NextTransient ==
  \/ \E t \in {"A", "B"}, s \in {NoScope, 1} : ResolveCall(t, s)
  \/ \E s \in {NoScope, 1} : ResolveAsyncCall("A", s, FALSE)
  \/ \E f \in 1..Len(frames) : RunFrame(f)

SpecTransient == InitTransient /\ [][NextTransient]_vars

\* The successful calls for token t, and the instances built with an
\* instance of token t among their constructor arguments.
Resolved(t) == {c \in 1..Len(calls) : calls[c].tok = t /\ calls[c].status = "ok"}
BuiltFrom(t) ==
  {i \in 1..Len(heap) : \E k \in 1..Len(heap[i].args) :
     heap[i].args[k] \in Built(t)}

DiamondProviders(lifecycle, summons) ==
  << Provider("D", lifecycle, "class", <<>>, Undefined),
     Provider("B", lifecycle, "class", <<"D">>, Undefined),
     Provider("A", lifecycle, "class", summons, Undefined) >>

InitDiamond ==
  \E lifecycle \in {"singleton", "transient"}, summons \in {<<"B", "D">>, <<"D", "B">>} :
    Constructed(DiamondProviders(lifecycle, summons), [t \in Tokens |-> 0])

NextDiamond ==
  \/ \E t \in {"A", "B"} : ResolveCall(t, NoScope)
  \/ ResolveAsyncCall("A", NoScope, FALSE)
  \/ \E f \in 1..Len(frames) : RunFrame(f)

SpecDiamond == InitDiamond /\ [][NextDiamond]_vars

\* The registered tokens a token of S depends on, directly or through others.
RECURSIVE DependsOn(_)
DependsOn(S) ==
  LET more == S \cup {u \in Tokens : \E t \in S : store[t].reg /\ Contains(DepsOf(store[t]), u)}
  IN IF more = S THEN S ELSE DependsOn(more)

\* The registered dependency graph has a cycle through token t.
OnCycle(t) ==
  /\ store[t].reg
  /\ t \in DependsOn(SeqToSet(DepsOf(store[t])))

\* C31: a call, synchronous or asynchronous, fails with a circular-dependency
\* error only for a token that lies on a cycle of the registered dependency
\* graph, and the reported trace begins and ends with that token; resolving an
\* acyclic graph never fails with a cycle error.
C31_CycleErrorOnlyForCycles ==
  \A c \in 1..Len(calls) :
    calls[c].err.type = "CircularDependency" =>
      /\ OnCycle(calls[c].err.tok)
      /\ calls[c].err.payload[1] = describeToken(store, calls[c].err.tok)
      /\ calls[c].err.payload[Len(calls[c].err.payload)]
           = describeToken(store, calls[c].err.tok)

(***************************************************************************)
(* The cyclic graphs above under an event loop that keeps running: a frame  *)
(* that can run on is eventually run.                                      *)
(***************************************************************************)
SpecCycleLive ==
  /\ InitCycle
  /\ [][NextCycle]_vars
  /\ WF_vars(\E f \in 1..Len(frames) : RunFrame(f))

\* Call c is an asynchronous call that has not settled.
Pending(c) == c \in 1..Len(calls) /\ calls[c].kind = "async" /\ calls[c].status = "run"

\* A frame that could run on is held back by the bound on frames alone.
FramesExhausted ==
  \E f \in 1..Len(frames) :
    /\ CanStep(Machine, f)
    /\ \A bad \in 0..Len(frames) : Len(StepFrame(Machine, f, bad, epoch).frames) > MaxFrames

\* C32: every resolveAsync call eventually settles (unless the run is cut
\* short by the bound on frames), also when concurrent callers resolve
\* different tokens of one dependency cycle.
C32_EveryCallSettles ==
  \A c \in 1..MaxCalls : Pending(c) ~> (~Pending(c) \/ FramesExhausted)

\* Asynchronous calls are pending and no frame can run on: each is waiting
\* for a promise that only another waiting frame could settle.
MutualWait ==
  /\ \E c \in 1..Len(calls) : Pending(c)
  /\ \A f \in 1..Len(frames) : ~CanStep(Machine, f)

\* C33: within one epoch the instance slot of an entry is written at most
\* once: a slot that holds an instance keeps it until clear() begins the
\* next epoch, whatever synchronous and asynchronous resolutions do.
C33_WrittenOncePerEpoch ==
  [][\A t \in Tokens :
       store[t].instance # Undefined /\ epoch' = epoch =>
         store'[t].instance = store[t].instance]_vars

(***************************************************************************)
(* Deferred fusion: Core (1) registers and reveals A, Dup (2) registers    *)
(* and reveals B, and Core, Mid (3) and Host (4) fuse other containers as  *)
(* deferred classes, Host also next to the built Dup. Some of the graphs   *)
(* have a cycle: Mid -> Core -> Mid, Host -> Mid -> Host.                  *)
(***************************************************************************)
LazyRegistries ==
  { [v \in VaultIds |->
       CASE v = 1 -> Config(FALSE, {"A"}, {"A"}, f1, "allow")
         [] v = 2 -> Config(FALSE, {"B"}, {"B"}, <<>>, "allow")
         [] v = 3 -> Config(FALSE, {}, {}, f3, "allow")
         [] OTHER -> Config(FALSE, {}, {}, f4, "allow")] :
     f1 \in {<<>>, <<ClassRef(3)>>},
     f3 \in {<<ClassRef(1)>>, <<ClassRef(4)>>},
     f4 \in {<<ClassRef(1)>>, <<BuiltRef(2), ClassRef(1)>>, <<ClassRef(3)>>,
             <<ClassRef(2), ClassRef(3)>>} }

InitLazy ==
  /\ SingleVault(<<>>, [t \in Tokens |-> 0], NoDisposers)
  /\ registry \in LazyRegistries
  /\ vaults = [v \in VaultIds |-> Unbuilt]
  /\ outcome = [op |-> "none"]

NextLazy ==
  \/ \E v \in VaultIds : NewFusedVault(v)
  \/ \E v \in {3, 4}, t \in FTokens : ResolveFused(v, t)
  \/ \E v \in {3, 4}, t \in FTokens : CanResolve(v, t)

SpecLazy == InitLazy /\ [][NextLazy]_vars

\* The deferred classes of the container v.
Deferred(v) == SeqToSet(vaults[v].lazyAttachmentClasses)

\* C34: once the deferred classes of a container are materialized, its
\* exposure index has visited each of them and holds every token they
\* reveal, and a resolve() or canResolve() of such a token on the container
\* succeeds, whether or not the container was built with fused Vault
\* instances as well.
C34_LazyFusedIndexed ==
  \A v \in VaultIds :
    vaults[v].built /\ vaults[v].lazyAttachmentsResolved =>
      \A c \in Deferred(v) :
        /\ c \in vaults[v].exposure.visited
        /\ \A t \in FTokens :
             Exposes(c, t) =>
               /\ findCrossVaultEntry(vaults[v].exposure, t) # NoVault
               /\ outcome.op \in {"resolve", "canResolve"}
                    /\ outcome.v = v /\ outcome.tok = t => outcome.status = "ok"

\* The built Vault instances in the configuration of v: its fused list as
\* its constructor leaves it.
BuiltItems(v) == ItemsOfKind(registry[v].fuse, "built")

\* C35: an operation of a container that fails in the materialization of its
\* deferred classes or in the cycle check leaves its fused list as the
\* constructor made it, and no fused list ever holds a container twice.
C35_FailedAttachRolledBack ==
  /\ outcome.op \in {"resolve", "canResolve"}
       /\ outcome.err.type = "CircularVaultAttachment" =>
         vaults[outcome.v].fusedVaults = BuiltItems(outcome.v)
  /\ \A v \in VaultIds :
       \A i, j \in 1..Len(vaults[v].fusedVaults) :
         vaults[v].fusedVaults[i] = vaults[v].fusedVaults[j] => i = j

\* The configurations reachable from v through fusion edges, v included,
\* hold a directed cycle.
CycleReachable(v) == \E c \in {v} \cup Descendants(v) : c \in Descendants(c)

\* The names p are a cycle of fusion edges: the last names a container that
\* p named before, and each but the first is fused by the one before it.
IsFusionCycle(p) ==
  /\ Len(p) >= 2
  /\ \E i \in 1..(Len(p) - 1) : p[i] = p[Len(p)]
  /\ \A i \in 1..(Len(p) - 1) : p[i + 1] \in Fuses(p[i])

\* C36: an operation of a container that needs its fused containers, while
\* the fusion graph reachable from the container holds a directed cycle,
\* fails with a circular-attachment error that carries a cycle of container
\* names beginning at the container.
C36_CycleFailsFirstNeed ==
  /\ outcome.op \in {"resolve", "canResolve"}
  /\ outcome.tok \notin registry[outcome.v].relics
  /\ CycleReachable(outcome.v)
  => /\ outcome.status = "err"
     /\ outcome.err.type = "CircularVaultAttachment"
     /\ outcome.err.payload[1] = outcome.v
     /\ IsFusionCycle(outcome.err.payload)

\* The asynchronous resolver calls that are past their stack.push and have
\* not run their finally yet.
Pushed(f) ==
  frames[f].kind = "res" /\ frames[f].pc \in {"awaitShared", "awaitInst", "awaitTrans"}

\* A resolver call that leaves its try block pops its own token, which is the
\* top of the stack at that moment, and nothing else.
PopsOwnToken ==
  \A f \in 1..Len(frames) :
    Pushed(f) /\ frames'[f].pc # frames[f].pc =>
      /\ stacks[frames[f].call] # <<>>
      /\ stacks[frames[f].call][Len(stacks[frames[f].call])] = frames[f].tok
      /\ stacks'[frames[f].call] = Front(stacks[frames[f].call])

\* Once every frame of an asynchronous call has settled, the stack of the
\* call is empty again.
EmptyWhenSettled ==
  \A c \in 1..Len(calls) :
    (\A g \in 1..Len(frames) : frames[g].call = c => Settled(frames[g]))
      => stacks[c] = <<>>

\* C37: every resolver call restores the traversal stack: on return or throw
\* it removes exactly the token it pushed, in the asynchronous path too,
\* where the dependencies of one consumer are resolved concurrently against
\* one stack, so that a call that has settled leaves an empty stack.
C37_StackRestored == [][PopsOwnToken /\ EmptyWhenSettled']_vars

(***************************************************************************)
(* Constructors and factories that call vault.resolve themselves           *)
(* (core/vault.ts resolve and its scratchStack, core/resolver-sync.ts).    *)
(* A and B need each other, or B needs D, both by declared dependencies or *)
(* both by a vault.resolve call in the body.                               *)
(***************************************************************************)
\* kinds[1], needs[1] are A's way of getting its dependencies and the
\* dependencies, kinds[2], needs[2] those of B.
ReentrantProviders(lifecycle, kinds, needs) ==
  << Provider("D", lifecycle, "class", <<>>, Undefined),
     Provider("B", lifecycle, kinds[2], needs[2], Undefined),
     Provider("A", lifecycle, kinds[1], needs[1], Undefined) >>

BodyKinds == {"class", "rclass", "rfactory"}

InitReentrant ==
  \E lifecycle \in {"singleton", "transient"}, ka \in BodyKinds, kb \in BodyKinds,
     nb \in {<<"A">>, <<"D">>} :
    /\ (ka = "class") = (kb = "class")
    /\ Constructed(ReentrantProviders(lifecycle, <<ka, kb>>, << <<"B">>, nb >>),
                   [t \in Tokens |-> 0])

NextReentrant ==
  \E t \in {"A", "B", "D"} : ResolveCall(t, NoScope)

SpecReentrant == InitReentrant /\ [][NextReentrant]_vars

\* The tokens a token of S needs, by declared dependencies or by the
\* vault.resolve calls of its body, directly or through others.
RECURSIVE NeedsOf(_)
NeedsOf(S) ==
  LET more == S \cup {u \in Tokens : \E t \in S :
                        store[t].reg /\ Contains(DepsOf(store[t]) \o store[t].reenters, u)}
  IN IF more = S THEN S ELSE NeedsOf(more)

\* Token t lies on a dependency cycle that passes through a vault.resolve call
\* made by a body.
OnReentrantCycle(t) ==
  /\ store[t].reg
  /\ t \in NeedsOf(SeqToSet(DepsOf(store[t]) \o store[t].reenters))
  /\ \E u \in NeedsOf({t}) : store[u].reenters # <<>> /\ t \in NeedsOf({u})

\* Error e reports a dependency cycle, directly or as the cause of the
\* FactoryExecutionError a factory's body is wrapped in.
ReportsCycle(e) ==
  IF e.type = "CircularDependency" THEN TRUE
  ELSE e.type = "FactoryExecution" /\ e.payload = <<"CircularDependency">>

\* C38: a synchronous resolve of a token on a dependency cycle that passes
\* through a re-entrant vault.resolve call (made from inside a constructor or
\* factory) fails with a circular-dependency error; it does not recurse until
\* the call stack is exhausted.
C38_ReentrantCycleReported ==
  \A c \in 1..Len(calls) :
    calls[c].kind = "sync" /\ OnReentrantCycle(calls[c].tok) =>
      calls[c].status = "err" /\ ReportsCycle(calls[c].err)

\* A call on a cycle through a re-entrant call ended when the call stack ran
\* out.
StackOverflow ==
  \E c \in 1..Len(calls) :
    /\ OnReentrantCycle(calls[c].tok)
    /\ calls[c].err.type = "RangeError"
         \/ calls[c].err.payload = <<"RangeError">>

\* A cycle of declared dependencies alone is reported.
DeclaredCycleReported ==
  \A c \in 1..Len(calls) :
    calls[c].kind = "sync" /\ OnCycle(calls[c].tok) /\ ~OnReentrantCycle(calls[c].tok) =>
      calls[c].status = "err" /\ ReportsCycle(calls[c].err)

(***************************************************************************)
(* resolve and resolveAsync side by side (core/vault.ts resolve,           *)
(* _resolveRelic, _resolveRelicAsync): D and A are singletons, B is        *)
(* scoped, T is transient, all classes (their creation is synchronous),    *)
(* and each scope s may provide its own value -s for D.                    *)
(***************************************************************************)
SourceProviders ==
  << Provider("D", "singleton", "class", <<>>, Undefined),
     Provider("A", "singleton", "class", <<"D">>, Undefined),
     Provider("B", "scoped", "class", <<"D">>, Undefined),
     Provider("T", "transient", "class", <<"B">>, Undefined) >>

InitSources == Constructed(SourceProviders, [t \in Tokens |-> 0])

NextSources ==
  \/ \E s \in Scopes : Provide(s, "D", 0 - s)
  \/ \E t \in Tokens, s \in {NoScope} \cup Scopes : ResolveCall(t, s)
  \/ \E t \in {"D", "B"}, s \in {NoScope, 1} : ResolveAsyncCall(t, s, FALSE)
  \/ \E f \in 1..Len(frames) : RunFrame(f)

SpecSources == InitSources /\ [][NextSources]_vars

\* The rejection Promise.all reports to frame f: that of the first rejected
\* dependency, 0 when frame f does not wait for dependencies that rejected.
FirstRejected(m, f) ==
  LET bad == {k \in SeqToSet(m.frames[f].kids) : m.frames[k].pc = "err"}
  IN IF m.frames[f].pc # "awaitDeps" \/ bad = {} THEN 0
     ELSE CHOOSE k \in bad : \A j \in bad : k <= j

\* The event loop runs until no frame can run on, the oldest frame first.
RECURSIVE RunToEnd(_)
RunToEnd(m) ==
  LET can == {f \in 1..Len(m.frames) : CanStep(m, f)}
      f == CHOOSE k \in can : \A j \in can : k <= j
  IN IF can = {} THEN m
     ELSE RunToEnd(StepFrame(m, f, FirstRejected(m, f), epoch))

\* What an instance is, for comparing the outcomes of two resolutions that
\* start from one state with h0 instances built: an instance built before,
\* or a provided value, is itself; a new one is its class and what its
\* arguments are.
RECURSIVE Canon(_, _, _)
Canon(hp, h0, v) ==
  IF v <= h0 THEN [id |-> v, tok |-> "", args |-> <<>>]
  ELSE [id |-> 0, tok |-> hp[v].tok,
        args |-> [k \in 1..Len(hp[v].args) |-> Canon(hp, h0, hp[v].args[k])]]

\* What the caller of a resolution gets: the value or the type of the error.
Handed(hp, val, err) ==
  [val |-> Canon(hp, Len(heap), val), err |-> err.type]

\* The outcome of vault.resolve(tok, {scope}) made in the current state.
SyncOutcome(tok, scope) ==
  LET r == Resolve(World, tok, scope)
  IN Handed(r.w.heap, r.val, r.err)

\* The outcome of await vault.resolveAsync(tok, {scope}) made in the current
\* state.
AsyncOutcome(tok, scope) ==
  LET c == Len(calls) + 1
      m == [Machine EXCEPT !.calls = Append(@, NewCall("async", tok, scope, FALSE)),
                           !.stacks = Append(@, <<>>)]
      end == RunToEnd(SpawnRes(m, tok, c, 0, scope, 0))
  IN Handed(end.w.heap, end.calls[c].val, end.calls[c].err)

\* Nothing asynchronous is in flight.
Quiescent == \A f \in 1..Len(frames) : Settled(frames[f])

\* C39: in any state with nothing in flight, for every token (all creations
\* are synchronous) and every scope, resolve and resolveAsync have the same
\* outcome: the same existing value or provided value, an equal new
\* instance, or an error of the same type.
C39_SyncAsyncAgree ==
  Quiescent =>
    \A t \in Tokens, s \in {NoScope} \cup Scopes :
      SyncOutcome(t, s) = AsyncOutcome(t, s)

\* The two agree whenever the scope has no value of its own for any token.
AgreeWithoutLocalValues ==
  Quiescent =>
    \A t \in Tokens, s \in {NoScope} \cup Scopes :
      (s = NoScope \/ \A u \in Tokens : scopes[s].local[u] = Undefined) =>
        SyncOutcome(t, s) = AsyncOutcome(t, s)

(***************************************************************************)
(* Fusion graphs with diamonds, repeated edges and cycles                  *)
(* (ExposureIndex.compute, core/token.ts). Side fuses Core, Mid fuses Core *)
(* once or twice, Host fuses Side twice, Side and Mid, or Mid and Core,    *)
(* and Core may name Mid as a deferred class, which closes a cycle once    *)
(* both lists are materialized.                                            *)
(***************************************************************************)
GraphRegistries ==
  { [v \in VaultIds |->
       CASE v = 1 -> Config(FALSE, {"A"}, {"A"}, f1, "allow")
         [] v = 2 -> Config(FALSE, {"B"}, {"B"}, <<BuiltRef(1)>>, "allow")
         [] v = 3 -> Config(FALSE, {}, {}, f3, "allow")
         [] OTHER -> Config(FALSE, {}, {}, f4, "allow")] :
     f1 \in {<<>>, <<ClassRef(3)>>},
     f3 \in {<<ClassRef(1)>>, <<BuiltRef(1), BuiltRef(1)>>},
     f4 \in {<<BuiltRef(2), BuiltRef(2)>>, <<BuiltRef(2), BuiltRef(3)>>,
             <<ClassRef(3), ClassRef(1)>>} }

InitGraph ==
  /\ SingleVault(<<>>, [t \in Tokens |-> 0], NoDisposers)
  /\ registry \in GraphRegistries
  /\ vaults = [v \in VaultIds |-> Unbuilt]
  /\ outcome = [op |-> "none"]

NextGraph ==
  \/ \E v \in VaultIds : NewFusedVault(v)
  \/ \E v \in {1, 3, 4} : CanResolve(v, "B")
  \/ \E v \in {1, 4} : ComputeExposure(v)
  \/ \E v \in {1, 4} : ClearExposure(v)

SpecGraph == InitGraph /\ [][NextGraph]_vars

\* The containers reached from those of S along fusedVaults.
RECURSIVE FusedFrom(_)
FusedFrom(S) ==
  LET more == S \cup UNION {SeqToSet(vaults[u].fusedVaults) : u \in S}
  IN IF more = S THEN S ELSE FusedFrom(more)

\* The sequence s holds no element twice.
NoRepeat(s) == \A i, j \in 1..Len(s) : s[i] = s[j] => i = j

\* The last operation was a compute() that traversed the graph.
Traversed == outcome.op = "compute" /\ outcome.status = "computed"

\* C40: compute() ends on every fusion graph, diamonds, repeated edges and
\* cycles included: the traversal it has just made indexed every container
\* reachable from the root, and since its latest clear() an index has
\* indexed no container twice and pushed the target of no fusion edge twice,
\* every pushed pair being an edge of the graph.
C40_ComputeTerminatesOncePerEdge ==
  /\ Traversed =>
       /\ vaults[outcome.v].exposure.computed
       /\ vaults[outcome.v].exposure.visited = FusedFrom({outcome.v})
  /\ \A v \in VaultIds :
       LET ex == vaults[v].exposure IN
       /\ NoRepeat(ex.order)
       /\ NoRepeat(ex.pushed)
       /\ SeqToSet(ex.order) = ex.visited
       /\ \A i \in 1..Len(ex.pushed) :
            Contains(vaults[ex.pushed[i][1]].fusedVaults, ex.pushed[i][2])

\* Some container of S lies on a cycle of fusedVaults.
HasFusionCycle(S) ==
  \E u \in S : u \in FusedFrom(SeqToSet(vaults[u].fusedVaults))

\* Some container of S is fused by two containers of S, or twice by one.
HasSharedTarget(S) ==
  \E u \in S :
    \/ \E a, b \in S : a # b /\ Contains(vaults[a].fusedVaults, u)
                             /\ Contains(vaults[b].fusedVaults, u)
    \/ \E a \in S : ~NoRepeat(vaults[a].fusedVaults) /\ Contains(vaults[a].fusedVaults, u)

\* compute() has just traversed a graph with a cycle and a container that is
\* reached along two edges.
C40_Witness ==
  /\ Traversed
  /\ HasFusionCycle(FusedFrom({outcome.v}))
  /\ HasSharedTarget(FusedFrom({outcome.v}))
  /\ Cardinality(FusedFrom({outcome.v})) >= 3

\* compute() has just traversed a diamond without a cycle.
DiamondTraversed ==
  /\ Traversed
  /\ ~HasFusionCycle(FusedFrom({outcome.v}))
  /\ \E u \in FusedFrom({outcome.v}) :
       \E a, b \in FusedFrom({outcome.v}) :
         a # b /\ Contains(vaults[a].fusedVaults, u) /\ Contains(vaults[b].fusedVaults, u)
====
